---- MODULE Spec2Model ----
(***************************************************************************)
(* Model of the modular auto vertical spread trader:                       *)
(*   runner.py   AutoVerticalSpreadTrader.run_entries_if_time / run_scan   *)
(*   executor.py select_and_place and the target helpers                   *)
(*   monitor.py  StopLossMonitor                                           *)
(* The main thread (daily entry run) and the monitor thread share the      *)
(* open-position book spread_book without a lock.                          *)
(*                                                                         *)
(* Units: underlying prices, strikes and ATR are whole dollars; option     *)
(* bids and asks are cents; deltas are hundredths; the ATR multipliers of  *)
(* the configuration are tenths; MAX_BID_ASK_PCT is percent.               *)
(***************************************************************************)
EXTENDS Integers, Sequences, FiniteSets, TLC

(* ------------------------------------------------------------------ *)
(* Configuration (config.py)                                            *)
(* ------------------------------------------------------------------ *)
MIN_DELTA == 30
MAX_COST == 50000
MIN_REWARD_RISK_RATIO == 10
MAX_BID_ASK_PCT == 15
STOP_LOSS_ATR_MULT == 20
TRAILING_STOP_BUFFER == 5
TARGET_R_MULTIPLE == 20
TARGET_ATR_MULTIPLE == 30
SCAN_HOUR_ET == 15
MAX_DAILY_TRADES == 3
\* scaled down to the size of the universe below: config.py ships MAX_POSITIONS = 10
MAX_POSITIONS == 2

(* ------------------------------------------------------------------ *)
(* Bounds of the model                                                  *)
(* ------------------------------------------------------------------ *)
MaxSignals == 2
\* calls of ib.placeOrder that raise within one select_and_place
MaxPlaceFails == 1
\* exits the brokerage lets complete over the life of the process
MaxClosed == 1
\* historical-data requests issued by the scans
MaxRequests == 3
\* steps of the clock the cache files are followed over
MaxCacheTicks == 2

Symbols == {"A", "B"}
\* the filtered universe, in its list order
Universe == <<"A", "B">>
\* keys of the mapping run_scan('all') returns, in insertion order
ScanTypes == <<"bull_pullbacks", "bear_rallies", "high_base", "low_base">>
Bullish == {"bull", "high_base"}
Bearish == {"bear", "low_base"}
\* directions documented for select_and_place, plus the scan names the runner passes
Directions == {"bull", "bear", "high_base", "low_base", "bull_pullbacks", "bear_rallies"}

Hours == 14..15
\* bar.close and ATR14 of the signals the scans return
BarCloses == {100}
SignalATRs == {2}
\* prices the monitor can see for the underlying
PriceSet == {96, 98, 100, 102, 104}
\* Fibonacci targets computed from the price table: the swing end plus the
\* extension for bull and high_base, minus the extension for any other type
FibTargets(direction) == IF direction \in Bullish THEN {102} ELSE {98}
\* sorted(params[0].strikes) and the live price seen by select_and_place
StrikeChain == <<95, 100, 105, 110>>
LivePrices == {97, 100, 103}

(* ------------------------------------------------------------------ *)
(* Arithmetic helpers                                                   *)
(* ------------------------------------------------------------------ *)
Abs(x) == IF x < 0 THEN -x ELSE x

Min(a, b) == IF a <= b THEN a ELSE b

\* x * (t / 10) for a multiplier given in tenths (exact on the model's values)
MulTenths(x, t) == (x * t) \div 10

\* round(n / d) to the nearest integer, ties to even, d > 0  (Python round(x, 2) on cents)
RoundHalfEven(n, d) ==
  LET q == n \div d
      r == n % d
  IN  IF 2 * r < d THEN q
      ELSE IF 2 * r > d THEN q + 1
      ELSE IF q % 2 = 0 THEN q ELSE q + 1

(* ------------------------------------------------------------------ *)
(* State                                                                *)
(* ------------------------------------------------------------------ *)
VARIABLES
  hour,           \* hour of the US/Eastern wall clock
  last_run_date,  \* AutoVerticalSpreadTrader.last_run_date relative to the clock's
                  \* date: "none" (None), "today" or "earlier"
  runs,           \* history: number of entry runs begun on the clock's date
  spread_book,    \* the open-position book: symbol -> position record
  mainpc,         \* main thread: "idle", "scan", "place", "target_read", "target_write"
  run,            \* locals of the entry run in progress
  snapshot,       \* monitor thread: symbols of list(spread_book.items()) still to check
  stats,          \* StopLossMonitor: trades_closed, profits_taken, max_loss, total_profit_pct
  cfg,            \* the configuration switches that vary between deployments
  call,           \* a call of select_and_place taken on its own: arguments, answers, outcome
  event,          \* what the last step did
  procpc,         \* main thread: its position in main(), initialize, connect, main_loop, shutdown
  attempt,        \* the loop variable of connect
  exit_event,     \* AutoVerticalSpreadTrader.exit_event, shared with the monitor
  connected,      \* ib.isConnected()
  monpc,          \* monitor thread: its position in StopLossMonitor._monitor_loop
  trader,         \* AutoVerticalSpreadTrader: universe loaded and filtered, monitor created
  args,           \* the command line: scan (the --scan mode)
  life,           \* history of the start-up, connection and shutdown steps
  cache_file,     \* data_cache/<symbol>_<LOOKBACK_DAYS>.pkl for each symbol
  clock,          \* time.time(), in seconds from the start
  requests,       \* history: number of calls of ib.reqHistoricalData
  use_cache,      \* AutoVerticalSpreadTrader.use_cache
  got,            \* history: the last call of get_tech_df_cached and the tables saved
  calc            \* a call of one of the helper functions taken on its own:
                  \* its arguments and, once it has returned, its result

tradeVars == <<hour, last_run_date, runs, spread_book, mainpc, run, snapshot, stats, cfg, call, event>>

lifeVars == <<procpc, attempt, exit_event, connected, monpc, trader, args, life>>

cacheVars == <<cache_file, clock, requests, use_cache, got>>

calcVars == <<calc>>

vars == <<hour, last_run_date, runs, spread_book, mainpc, run, snapshot, stats, cfg, call, event,
          procpc, attempt, exit_event, connected, monpc, trader, args, life,
          cache_file, clock, requests, use_cache, got, calc>>

(* ------------------------------------------------------------------ *)
(* executor.py: select_and_place                                        *)
(* ------------------------------------------------------------------ *)
\* A ticker as select_and_place reads it.  bound = FALSE is the local
\* variable t1 / t2 before its first assignment.
Ticker(g, d, b, a) == [bound |-> TRUE, greeks |-> g, delta |-> d, bid |-> b, ask |-> a]

Unbound == [bound |-> FALSE, greeks |-> FALSE, delta |-> 0, bid |-> 0, ask |-> 0]

\* quotes the brokerage can answer with
Liquid40 == Ticker(TRUE, 40, 300, 320)     \* long leg, delta 0.40
Liquid20 == Ticker(TRUE, 20, 300, 320)     \* long leg, delta 0.20
NoGreeks == Ticker(FALSE, 0, 300, 320)     \* modelGreeks is None
ShortLiquid == Ticker(TRUE, 25, 100, 110)  \* short leg
ShortDear == Ticker(TRUE, 25, 300, 320)    \* short leg as dear as the long leg: debit 0
LongNoBid == Ticker(TRUE, 40, 0, 320)      \* long leg, delta 0.40, no bid
ShortWide == Ticker(TRUE, 25, 90, 120)     \* short leg, bid-ask 29% of mid
ShortDearer == Ticker(TRUE, 25, 400, 420)  \* short leg dearer than the long leg: debit < 0

\* Result of the three quote attempts for one candidate: r1 / r2 say whether
\* some attempt's reqMktData for the long / short leg returned (and so
\* assigned t1 / t2).  The short leg is requested only after the long leg
\* of the same attempt returned.
FetchOutcomes ==
  { [r1 |-> TRUE, q1 |-> Liquid40, r2 |-> TRUE, q2 |-> ShortLiquid],
    [r1 |-> TRUE, q1 |-> Liquid20, r2 |-> TRUE, q2 |-> ShortLiquid],
    [r1 |-> TRUE, q1 |-> NoGreeks, r2 |-> TRUE, q2 |-> ShortLiquid],
    [r1 |-> TRUE, q1 |-> Liquid40, r2 |-> TRUE, q2 |-> ShortDear],
    [r1 |-> TRUE, q1 |-> LongNoBid, r2 |-> TRUE, q2 |-> ShortLiquid],
    [r1 |-> TRUE, q1 |-> Liquid40, r2 |-> TRUE, q2 |-> ShortWide],
    [r1 |-> TRUE, q1 |-> Liquid40, r2 |-> FALSE, q2 |-> Unbound],
    [r1 |-> FALSE, q1 |-> Unbound, r2 |-> FALSE, q2 |-> Unbound] }

\* the outcomes drawn during an entry run of the whole system: a liquid
\* pair with a long-leg delta of 0.40, and one with a delta of 0.20
RunFetchOutcomes ==
  { [r1 |-> TRUE, q1 |-> Liquid40, r2 |-> TRUE, q2 |-> ShortLiquid],
    [r1 |-> TRUE, q1 |-> Liquid20, r2 |-> TRUE, q2 |-> ShortLiquid] }

\* debit = round((mid1 - mid2) * 100, 2), in cents
Debit(t1, t2) == RoundHalfEven(100 * ((t1.bid + t1.ask) - (t2.bid + t2.ask)), 2)

\* lines 135 and 144 left out
SpreadNeverTooWide(t) == FALSE

\* (ask - bid) / ((ask + bid) / 2) > MAX_BID_ASK_PCT, for bid, ask > 0
SpreadTooWide(t) == 200 * (t.ask - t.bid) > MAX_BID_ASK_PCT * (t.ask + t.bid)

\* line 158 with the test applied to a positive debit only
RewardRiskTooLowOfCost(reward, debit) ==
  debit > 0 /\ 10 * reward < cfg.MIN_REWARD_RISK_RATIO * debit

\* reward / debit < config["MIN_REWARD_RISK_RATIO"] for debit # 0 (Python
\* float division)
RewardRiskTooLow(reward, debit) ==
  IF debit > 0 THEN 10 * reward < cfg.MIN_REWARD_RISK_RATIO * debit
  ELSE 10 * reward > cfg.MIN_REWARD_RISK_RATIO * debit

\* Lines 121-159 for one candidate, given the tickers left in t1 and t2 by
\* the quote attempts: "error" is an exception that reaches the outer
\* handler (an unassigned ticker, or the division by a zero debit), "skip"
\* a continue, "pass" the candidate reaching the order submission.
Gates(direction, width, t1, t2) ==
  IF ~t1.bound THEN "error"
  ELSE IF ~t1.greeks THEN "skip"
  ELSE IF ~t2.bound THEN "error"
  ELSE IF ~t2.greeks THEN "skip"
  ELSE IF t1.bid <= 0 \/ t1.ask <= 0 THEN "skip"
  ELSE IF SpreadTooWide(t1) THEN "skip"
  ELSE IF t2.bid <= 0 \/ t2.ask <= 0 THEN "skip"
  ELSE IF SpreadTooWide(t2) THEN "skip"
  ELSE LET debit == Debit(t1, t2)
           reward == width * 10000 - debit
       IN  IF direction \in Bullish /\ Abs(t1.delta) < MIN_DELTA THEN "skip"
           ELSE IF direction \in Bearish /\ Abs(t1.delta) < MIN_DELTA THEN "skip"
           ELSE IF debit > MAX_COST THEN "skip"
           ELSE IF debit = 0 THEN "error"
           ELSE IF RewardRiskTooLow(reward, debit) THEN "skip"
           ELSE "pass"

\* the loop 'for k1 in strikes' from candidate i on.  fetch[i] is the
\* outcome of the quote attempts for candidate i; the first 'fails' calls
\* of ib.placeOrder raise and the next one returns.  seen lists the
\* candidates that got as far as the quote attempts, with the tickers
\* lines 121-159 read for them, orders the orders submitted so far.
RECURSIVE StrikeLoop(_, _, _, _, _, _, _, _, _, _)
\* the loop without the return of line 199: it goes on to the next strike
\* after an order went out
StrikeLoopKeepsGoing(direction, strikes, S, fetch, fails, i, t1, t2, seen, orders) ==
  IF i > Len(strikes) THEN [result |-> orders # <<>>, orders |-> orders, seen |-> seen]
  ELSE
    LET k1 == strikes[i]
        idx == i + (IF direction \in Bullish THEN 1 ELSE -1)
        next(f, a, b, sn, os) == StrikeLoop(direction, strikes, S, fetch, f, i + 1, a, b, sn, os)
    IN  IF direction \in Bullish /\ k1 < S THEN next(fails, t1, t2, seen, orders)
        ELSE IF direction \in Bearish /\ k1 > S THEN next(fails, t1, t2, seen, orders)
        ELSE IF idx < 1 \/ idx > Len(strikes) THEN next(fails, t1, t2, seen, orders)
        ELSE
          LET k2 == strikes[idx]
              width == Abs(k2 - k1)
              optType == IF direction \in Bullish THEN "C" ELSE "P"
              n1 == IF fetch[i].r1 THEN fetch[i].q1 ELSE t1
              n2 == IF fetch[i].r2 THEN fetch[i].q2 ELSE t2
              g == Gates(direction, width, n1, n2)
              ord == [k1 |-> k1, k2 |-> k2, optType |-> optType, debit |-> Debit(n1, n2),
                      delta |-> n1.delta]
              sn == Append(seen, [i |-> i, gate |-> g, placed |-> (g = "pass" /\ fails = 0),
                                  t1 |-> n1, t2 |-> n2])
          IN  IF g = "error" THEN [result |-> orders # <<>>, orders |-> orders, seen |-> sn]
              ELSE IF g = "skip" THEN next(fails, n1, n2, sn, orders)
              ELSE IF fails = 0
                   THEN next(fails, n1, n2, sn, Append(orders, ord))
                   ELSE next(fails - 1, n1, n2, sn, orders)

StrikeLoop(direction, strikes, S, fetch, fails, i, t1, t2, seen, orders) ==
  IF i > Len(strikes) THEN [result |-> FALSE, orders |-> orders, seen |-> seen]
  ELSE
    LET k1 == strikes[i]
        idx == i + (IF direction \in Bullish THEN 1 ELSE -1)
        next(f, a, b, sn) == StrikeLoop(direction, strikes, S, fetch, f, i + 1, a, b, sn, orders)
    IN  IF direction \in Bullish /\ k1 < S THEN next(fails, t1, t2, seen)
        ELSE IF direction \in Bearish /\ k1 > S THEN next(fails, t1, t2, seen)
        ELSE IF idx < 1 \/ idx > Len(strikes) THEN next(fails, t1, t2, seen)
        ELSE
          LET k2 == strikes[idx]
              width == Abs(k2 - k1)
              optType == IF direction \in Bullish THEN "C" ELSE "P"
              n1 == IF fetch[i].r1 THEN fetch[i].q1 ELSE t1
              n2 == IF fetch[i].r2 THEN fetch[i].q2 ELSE t2
              g == Gates(direction, width, n1, n2)
              ord == [k1 |-> k1, k2 |-> k2, optType |-> optType, debit |-> Debit(n1, n2),
                      delta |-> n1.delta]
              sn == Append(seen, [i |-> i, gate |-> g, placed |-> (g = "pass" /\ fails = 0),
                                  t1 |-> n1, t2 |-> n2])
          IN  IF g = "error" THEN [result |-> FALSE, orders |-> orders, seen |-> sn]
              ELSE IF g = "skip" THEN next(fails, n1, n2, sn)
              ELSE IF fails = 0
                   THEN [result |-> TRUE, orders |-> Append(orders, ord), seen |-> sn]
                   ELSE next(fails - 1, n1, n2, sn)

\* select_and_place up to the point where the position is recorded.
\* params: "none" (no option parameters), "fail" (three attempts raised) or
\* "chain"; S = 0 stands for a price that could not be obtained.
SelectAndPlace(direction, params, strikes, S, fetch, fails) ==
  IF params # "chain" \/ S = 0
  THEN [result |-> FALSE, orders |-> <<>>, seen |-> <<>>]
  ELSE StrikeLoop(direction, strikes, S, fetch, fails, 1, Unbound, Unbound, <<>>, <<>>)

\* what the brokerage can answer during one call, with the quote outcomes
\* of the candidates drawn from F
NoFetch == [i \in DOMAIN StrikeChain |-> [r1 |-> FALSE, q1 |-> Unbound, r2 |-> FALSE, q2 |-> Unbound]]

BrokerAnswers(F) ==
  { [params |-> p, S |-> 0, fetch |-> NoFetch, fails |-> 0] : p \in {"none", "fail", "chain"} }
  \cup { [params |-> "chain", S |-> S, fetch |-> f, fails |-> n] :
           S \in LivePrices, f \in F, n \in 0..MaxPlaceFails }

\* during an entry run of the whole system every candidate of a call gets
\* the same quote outcome
RunFetches == { [i \in DOMAIN StrikeChain |-> o] : o \in RunFetchOutcomes }

\* a cache file that does not exist
NoFile == [exists |-> FALSE, st_mtime |-> 0, bytes |-> <<>>]

NoGot ==
  [flip |-> FALSE, sym |-> "", df |-> <<>>, from_cache |-> FALSE, requested |-> FALSE,
   saved |-> FALSE, kept |-> [s \in Symbols |-> [valid |-> FALSE, df |-> <<>>, at |-> 0]]]

\* no helper function is followed on its own
NoCalc == [fn |-> "none"]

\* an empty cache directory, caching enabled, no table asked for yet
NoCache ==
  /\ cache_file = [s \in Symbols |-> NoFile]
  /\ clock = 0
  /\ requests = 0
  /\ use_cache = TRUE
  /\ got = NoGot

NoLife ==
  [caller |-> "", attempts |-> 0, pauses |-> 0, raised |-> 0, result |-> "none",
   checked |-> "", init |-> "none", entered_loop |-> FALSE, scanned |-> FALSE,
   interrupted |-> FALSE, sd_from |-> "", log |-> <<>>, mon_err |-> FALSE]

\* the process in its main loop: initialize returned True, the monitor
\* thread runs, nobody asked for a shutdown
Trading ==
  /\ procpc = "loop_entries"
  /\ attempt = 0
  /\ exit_event = FALSE
  /\ connected = TRUE
  /\ monpc = "check"
  /\ trader = [universe |-> TRUE, monitor |-> TRUE]
  /\ args = [scan |-> FALSE]
  /\ life = [NoLife EXCEPT !.init = "true", !.entered_loop = TRUE, !.checked = "connected"]
  /\ NoCache

NoInfo ==
  [type |-> "", entryPrice |-> 0, ATR |-> 0, has_target |-> FALSE, price_target |-> 0,
   target_type |-> "",
   has_trailing |-> FALSE, trailing_stop_price |-> 0, trailing_high |-> 0, trailing_low |-> 0]

NoOrder == [k1 |-> 0, k2 |-> 0, optType |-> "", debit |-> 0, delta |-> 0]

NoSignal == [scan |-> "", sym |-> "", close |-> 0, atr |-> 0]

NoRun ==
  [found |-> 0, all_signals |-> <<>>, space_available |-> 0, idx |-> 0, trades_placed |-> 0,
   open_at_capacity |-> 0, added |-> 0, held |-> NoInfo, target |-> 0]

NoEvent ==
  [kind |-> "none", sym |-> "", scan |-> "", n |-> 0, left |-> 0, reason |-> "", ok |-> FALSE,
   cur |-> 0, S |-> 0, info |-> NoInfo, order |-> NoOrder, flat |-> <<>>,
   passed |-> FALSE, accepted |-> FALSE, orders |-> 0, hist |-> FALSE, failed |-> 0]

NoCall ==
  [direction |-> "", params |-> "", S |-> 0, fetch |-> NoFetch, fails |-> 0,
   done |-> FALSE, result |-> FALSE, orders |-> <<>>, seen |-> <<>>]

Ev(kind, reason) == [NoEvent EXCEPT !.kind = kind, !.reason = reason]

Open == DOMAIN spread_book

\* the configuration as config.py ships it
DefaultConfig ==
  [TRAILING_STOP_ENABLED |-> FALSE, STOP_LOSS_ATR_MULT |-> STOP_LOSS_ATR_MULT,
   USE_FIBONACCI_TARGETS |-> TRUE, USE_R_MULTIPLE_TARGETS |-> FALSE, USE_ATR_TARGETS |-> FALSE,
   MAX_POSITIONS |-> MAX_POSITIONS, MIN_REWARD_RISK_RATIO |-> MIN_REWARD_RISK_RATIO]

\* the record with price_target and target_type set
WithTarget(info, target, label) ==
  [info EXCEPT !.has_target = TRUE, !.price_target = target, !.target_type = label]

\* the mapping d with d[sym] = info added or replaced
Put(book, sym, info) == [s \in (DOMAIN book) \cup {sym} |-> IF s = sym THEN info ELSE book[s]]

\* the mapping after pop(sym)
Pop(book, sym) == [s \in (DOMAIN book) \ {sym} |-> book[s]]

(* ------------------------------------------------------------------ *)
(* monitor.py: StopLossMonitor                                          *)
(* ------------------------------------------------------------------ *)
\* lines 159-164 with < for <= and > for >=
StopLossHitStrict(direction, current_price, entry_price, stop_diff) ==
  \/ direction \in Bullish /\ current_price < entry_price - stop_diff
  \/ direction \in Bearish /\ current_price > entry_price + stop_diff

\* the stop-loss test of _check_exit_conditions (lines 159-164)
StopLossHit(direction, current_price, entry_price, stop_diff) ==
  \/ direction \in Bullish /\ current_price <= entry_price - stop_diff
  \/ direction \in Bearish /\ current_price >= entry_price + stop_diff

\* lines 173-175 and 185-187 without the buffer
ArmTrailingStopAtPrice(info, current_price, buffer) ==
  IF info.type \in Bullish
  THEN [info EXCEPT !.has_trailing = TRUE,
                    !.trailing_stop_price = current_price,
                    !.trailing_high = current_price]
  ELSE [info EXCEPT !.has_trailing = TRUE,
                    !.trailing_stop_price = current_price,
                    !.trailing_low = current_price]

\* the record after the target was reached with trailing stops enabled
\* (lines 173-175 and 185-187)
ArmTrailingStop(info, current_price, buffer) ==
  IF info.type \in Bullish
  THEN [info EXCEPT !.has_trailing = TRUE,
                    !.trailing_stop_price = current_price - buffer,
                    !.trailing_high = current_price]
  ELSE [info EXCEPT !.has_trailing = TRUE,
                    !.trailing_stop_price = current_price + buffer,
                    !.trailing_low = current_price]

\* _check_exit_conditions with the profit-target test (lines 167-190) ahead
\* of the stop-loss test (lines 159-164)
CheckExitConditionsTargetFirst(info, current_price) ==
  LET direction == info.type
      entry_price == info.entryPrice
      stop_diff == MulTenths(info.ATR, cfg.STOP_LOSS_ATR_MULT)
      buffer == MulTenths(info.ATR, TRAILING_STOP_BUFFER)
      keep(r) == [reason |-> r, info |-> info]
  IN  IF info.has_target
         /\ \/ direction \in Bullish /\ current_price >= info.price_target
            \/ direction \in Bearish /\ current_price <= info.price_target
      THEN IF cfg.TRAILING_STOP_ENABLED
           THEN [reason |-> "none", info |-> ArmTrailingStop(info, current_price, buffer)]
           ELSE keep("profit_target")
      ELSE IF StopLossHit(direction, current_price, entry_price, stop_diff) THEN keep("stop_loss")
      ELSE IF info.has_trailing
              /\ \/ direction \in Bullish /\ current_price <= info.trailing_stop_price
                 \/ direction \in Bearish /\ current_price >= info.trailing_stop_price
      THEN keep("trailing_stop")
      ELSE keep("none")

\* _check_exit_conditions: the exit reason ("none" for None) and the
\* position record as the call leaves it
CheckExitConditions(info, current_price) ==
  LET direction == info.type
      entry_price == info.entryPrice
      stop_diff == MulTenths(info.ATR, cfg.STOP_LOSS_ATR_MULT)
      buffer == MulTenths(info.ATR, TRAILING_STOP_BUFFER)
      keep(r) == [reason |-> r, info |-> info]
  IN  IF StopLossHit(direction, current_price, entry_price, stop_diff) THEN keep("stop_loss")
      ELSE IF info.has_target
              /\ \/ direction \in Bullish /\ current_price >= info.price_target
                 \/ direction \in Bearish /\ current_price <= info.price_target
      THEN IF cfg.TRAILING_STOP_ENABLED
           THEN [reason |-> "none", info |-> ArmTrailingStop(info, current_price, buffer)]
           ELSE keep("profit_target")
      ELSE IF info.has_trailing
              /\ \/ direction \in Bullish /\ current_price <= info.trailing_stop_price
                 \/ direction \in Bearish /\ current_price >= info.trailing_stop_price
      THEN keep("trailing_stop")
      ELSE keep("none")

\* _update_trailing_stop; trailing_high = 0 is info.get('trailing_high', 0)
UpdateTrailingStop(info, current_price) ==
  LET buffer == MulTenths(info.ATR, TRAILING_STOP_BUFFER)
  IN  IF info.type \in Bullish /\ current_price > info.trailing_high
      THEN [info EXCEPT !.trailing_high = current_price,
                        !.trailing_stop_price = current_price - buffer]
      ELSE IF info.type \in Bearish /\ (info.trailing_low = 0 \/ current_price < info.trailing_low)
      THEN [info EXCEPT !.trailing_low = current_price,
                        !.trailing_stop_price = current_price + buffer]
      ELSE info

\* the statistics after a successful _exit_position
CloseStats(st, info, exit_reason, current_price) ==
  LET pct == (Abs(current_price - info.entryPrice) * 100) \div info.entryPrice
  IN  IF exit_reason = "stop_loss"
      THEN [st EXCEPT !.trades_closed = @ + 1,
                      !.max_loss = IF pct > @ THEN pct ELSE @]
      ELSE [st EXCEPT !.trades_closed = @ + 1,
                      !.profits_taken = @ + 1,
                      !.total_profit_pct = @ + pct]

\* _exit_position returning True whatever the legs did
ExitSuccessAlways(leg1ok, leg2ok) == TRUE

\* _exit_position returns success: no leg's close step raised
ExitSuccess(leg1ok, leg2ok) == leg1ok /\ leg2ok

\* _check_position for a price that was obtained: the exit reason, the
\* record as the check leaves it, whether the position is popped from the
\* book, and the statistics.  leg1ok / leg2ok: the close step of the leg
\* completed (FALSE: it raised).
CheckPosition(info, cur, leg1ok, leg2ok, st) ==
  LET c == CheckExitConditions(info, cur)
  IN  IF c.reason = "none"
      THEN [reason |-> "none", removed |-> FALSE, stats |-> st,
            info |-> IF cfg.TRAILING_STOP_ENABLED /\ c.info.has_trailing
                     THEN UpdateTrailingStop(c.info, cur) ELSE c.info]
      ELSE IF ExitSuccess(leg1ok, leg2ok)
      THEN [reason |-> c.reason, removed |-> TRUE, info |-> c.info,
            stats |-> CloseStats(st, info, c.reason, cur)]
      ELSE [reason |-> c.reason, removed |-> FALSE, info |-> c.info, stats |-> st]

\* _check_all_positions takes its snapshot of the book
MonitorCycle ==
  /\ UNCHANGED lifeVars
  /\ UNCHANGED cacheVars
  /\ UNCHANGED calcVars
  /\ snapshot = {}
  /\ Open # {}
  /\ snapshot' = Open
  /\ event' = NoEvent
  /\ UNCHANGED <<hour, last_run_date, runs, spread_book, mainpc, run, stats, cfg, call>>

\* _check_position for one item of the snapshot.  cur = 0 stands for a
\* price that could not be obtained (None after three attempts, or 0).
\* With observe the step is recorded in event.
MonitorStep(observe) ==
  \E sym \in snapshot, cur \in PriceSet \cup {0}, leg1ok \in BOOLEAN, leg2ok \in BOOLEAN :
    LET info == spread_book[sym]
        c == CheckPosition(info, cur, leg1ok, leg2ok, stats)
        ev == [Ev("check", IF cur = 0 THEN "no_price" ELSE c.reason)
                 EXCEPT !.sym = sym, !.cur = cur, !.info = info,
                        !.ok = (cur # 0 /\ c.reason # "none" /\ ExitSuccess(leg1ok, leg2ok)),
                        !.n = IF cur # 0 /\ c.reason # "none"
                              THEN (IF leg1ok THEN 0 ELSE 1) + (IF leg2ok THEN 0 ELSE 1) ELSE 0]
    IN  /\ snapshot' = snapshot \ {sym}
        /\ event' = IF observe THEN ev ELSE NoEvent
        /\ UNCHANGED lifeVars
        /\ UNCHANGED cacheVars
        /\ UNCHANGED calcVars
        /\ UNCHANGED <<hour, last_run_date, runs, mainpc, cfg, call>>
        /\ (cur = 0 \/ c.reason = "none") => (leg1ok /\ leg2ok)
        /\ (cur # 0 /\ c.removed) => stats.trades_closed < MaxClosed
        /\ IF cur = 0
           THEN UNCHANGED <<spread_book, stats, run>>
           ELSE /\ stats' = c.stats
                /\ spread_book' = IF c.removed THEN Pop(spread_book, sym)
                                  ELSE [spread_book EXCEPT ![sym] = c.info]
                /\ run' = IF c.removed /\ mainpc = "target_write"
                             /\ run.all_signals[run.idx].sym = sym
                          THEN [run EXCEPT !.held = info] ELSE run

MonitorCheck == MonitorStep(FALSE)

MonitorCheckObserved == MonitorStep(TRUE)

(* ------------------------------------------------------------------ *)
(* runner.py: the daily entry run                                       *)
(* ------------------------------------------------------------------ *)
\* every (scan type, symbol) pair in the order run_entries_if_time
\* flattens scan_results: by scan type, then in universe order
AllPairs ==
  [n \in 1..(Len(ScanTypes) * Len(Universe)) |->
     [scan |-> ScanTypes[((n - 1) \div Len(Universe)) + 1],
      sym |-> Universe[((n - 1) % Len(Universe)) + 1]]]

PairSet == {AllPairs[n] : n \in DOMAIN AllPairs}

\* what the four scans can return: the pairs that matched, at most MaxSignals
ScanHits == {h \in SUBSET PairSet : Cardinality(h) <= MaxSignals}

\* all_signals as lines 239-241 build it; bar[sym] is the symbol's last bar and ATR
Flatten(hits, bar) ==
  LET picked == SelectSeq(AllPairs, LAMBDA p : p \in hits)
  IN  [n \in DOMAIN picked |->
         [scan |-> picked[n].scan, sym |-> picked[n].sym,
          close |-> bar[picked[n].sym].close, atr |-> bar[picked[n].sym].atr]]

Bars == [Symbols -> [close : BarCloses, atr : SignalATRs]]

\* lines 244-247 without the count of open positions
SpaceAvailableDaily(open) == MAX_DAILY_TRADES

\* lines 244-247
SpaceAvailable(open) == Min(MAX_DAILY_TRADES, cfg.MAX_POSITIONS - open)

\* lines 254-255 left out
TruncateNothing(signals, space) == signals

\* lines 254-255
Truncate(signals, space) ==
  IF Len(signals) > space THEN SubSeq(signals, 1, space) ELSE signals

\* line 228 with > for >=
AtPositionLimitOver(open) == open > cfg.MAX_POSITIONS

\* line 228
AtPositionLimit(open) == open >= cfg.MAX_POSITIONS

\* line 219 without the comparison of dates
TimeToRunAnyCall(h, last) == h >= SCAN_HOUR_ET

\* line 219
TimeToRun(h, last) == h >= SCAN_HOUR_ET /\ last # "today"

\* the record select_and_place stores under the symbol (lines 180-189)
NewPosition(direction, close, atr) ==
  [NoInfo EXCEPT !.type = direction, !.entryPrice = close, !.ATR = atr]

\* the main loop calls run_entries_if_time: the gate, the date stamp, the
\* refresh of the filtered universe and the position-limit check (lines
\* 216-230); an exception in the refresh ends the run in the handler of line 286
EntryCall ==
  /\ UNCHANGED lifeVars
  /\ UNCHANGED cacheVars
  /\ UNCHANGED calcVars
  /\ mainpc = "idle"
  /\ UNCHANGED <<hour, spread_book, snapshot, stats, cfg, call, run>>
  /\ IF TimeToRun(hour, last_run_date)
     THEN /\ last_run_date' = "today"
          /\ runs' = runs + 1
          /\ \/ /\ mainpc' = "idle"
                /\ event' = Ev("run_begin", "raise")
             \/ IF AtPositionLimit(Cardinality(Open))
                THEN /\ mainpc' = "idle"
                     /\ event' = Ev("run_begin", "limit")
                ELSE /\ mainpc' = "scan"
                     /\ event' = Ev("run_begin", "go")
     ELSE UNCHANGED <<last_run_date, runs, mainpc, event>>

\* run_scan('all'), the flattening and the capacity (lines 232-255); an
\* exception in the scans ends the run in the handler of line 286.
RunScan ==
  /\ UNCHANGED lifeVars
  /\ UNCHANGED cacheVars
  /\ UNCHANGED calcVars
  /\ mainpc = "scan"
  /\ UNCHANGED <<hour, last_run_date, runs, spread_book, snapshot, stats, cfg, call>>
  /\ \/ /\ mainpc' = "idle"
        /\ run' = NoRun
        /\ event' = Ev("scan", "raise")
     \/ \E hits \in ScanHits, bar \in Bars :
          LET flat == Flatten(hits, bar)
              open == Cardinality(Open)
              space == SpaceAvailable(open)
              sigs == Truncate(flat, space)
          IN  /\ event' = [Ev("scan", "ok") EXCEPT !.flat = flat, !.n = open]
              /\ IF space <= 0 \/ sigs = <<>>
                 THEN /\ mainpc' = "idle"
                      /\ run' = NoRun
                 ELSE /\ mainpc' = "place"
                      /\ run' = [NoRun EXCEPT !.found = Len(flat), !.all_signals = sigs,
                                              !.space_available = space, !.idx = 1,
                                              !.open_at_capacity = open]

\* the loop of lines 259-282 left at the first signal that placed nothing
AdvanceEndsRun(r) == NoRun

\* the run after the loop body for signal idx: next signal, or return
Advance(r) ==
  IF r.idx + 1 > Len(r.all_signals) THEN NoRun ELSE [r EXCEPT !.idx = @ + 1]

\* lines 265-270 after select_and_place returned True
AfterPlaced(r) ==
  LET r2 == [r EXCEPT !.trades_placed = @ + 1]
  IN  IF r2.trades_placed >= r2.space_available THEN NoRun ELSE Advance(r2)

PcOf(r) == IF r = NoRun THEN "idle" ELSE "place"

\* line 261 left out
AlreadyOpenNever(sym, book) == FALSE

\* line 261
AlreadyOpen(sym, book) == sym \in DOMAIN book

\* one pass of the loop of lines 259-270 up to the recording of the
\* position: the skip of a symbol already in the book, or select_and_place
PlaceStep ==
  /\ UNCHANGED lifeVars
  /\ UNCHANGED cacheVars
  /\ UNCHANGED calcVars
  /\ mainpc = "place"
  /\ UNCHANGED <<hour, last_run_date, runs, snapshot, stats, cfg, call>>
  /\ LET sig == run.all_signals[run.idx]
         ev == [Ev("attempt", "") EXCEPT !.sym = sig.sym, !.scan = sig.scan, !.n = run.idx,
                                         !.left = run.found - Len(run.all_signals)]
     IN  IF AlreadyOpen(sig.sym, spread_book)
         THEN /\ event' = [ev EXCEPT !.reason = "skip"]
              /\ run' = Advance(run)
              /\ mainpc' = PcOf(run')
              /\ UNCHANGED spread_book
         ELSE \E b \in BrokerAnswers(RunFetches) :
              \E r \in {SelectAndPlace(sig.scan, b.params, StrikeChain, b.S, b.fetch, b.fails)} :
                LET S == b.S
                    passed == \E j \in DOMAIN r.seen : r.seen[j].gate = "pass"
                    accepted == \E j \in DOMAIN r.seen : r.seen[j].placed
                    failed == Cardinality({j \in DOMAIN r.seen :
                                             r.seen[j].gate = "pass" /\ ~r.seen[j].placed})
                IN  IF r.result
                    THEN /\ event' = [ev EXCEPT !.reason = "placed", !.ok = TRUE, !.S = S,
                                                !.order = r.orders[Len(r.orders)],
                                                !.n = run.idx, !.passed = passed,
                                                !.accepted = accepted, !.failed = failed,
                                                !.orders = Len(r.orders)]
                         /\ spread_book' =
                              Put(spread_book, sig.sym, NewPosition(sig.scan, sig.close, sig.atr))
                         /\ run' = [run EXCEPT !.added = @ + 1]
                         /\ mainpc' = "target_read"
                    ELSE /\ event' = [ev EXCEPT !.reason = "declined", !.S = S,
                                                !.passed = passed, !.accepted = accepted,
                                                !.failed = failed, !.orders = Len(r.orders)]
                         /\ UNCHANGED spread_book
                         /\ run' = Advance(run)
                         /\ mainpc' = PcOf(run')

\* add_fibonacci_targets up to the call of add_fibonacci_target: the
\* price table is fetched, spread_book[symbol] is read and the target is
\* written into that record.  No table, or the symbol gone from the book
\* (KeyError), leaves the position without a target.  get_tech_df sends the
\* historical-data request whatever comes of it (scans.py line 78).
TargetRead ==
  /\ UNCHANGED lifeVars
  /\ UNCHANGED cacheVars
  /\ UNCHANGED calcVars
  /\ mainpc = "target_read"
  /\ UNCHANGED <<hour, last_run_date, runs, snapshot, stats, cfg, call>>
  /\ LET sym == run.all_signals[run.idx].sym
     IN  \/ /\ event' = [Ev("target", "none") EXCEPT !.sym = sym, !.hist = TRUE]
            /\ run' = AfterPlaced(run)
            /\ mainpc' = PcOf(run')
            /\ UNCHANGED spread_book
         \/ /\ sym \notin Open
            /\ event' = [Ev("target", "gone") EXCEPT !.sym = sym, !.hist = TRUE]
            /\ run' = AfterPlaced(run)
            /\ mainpc' = PcOf(run')
            /\ UNCHANGED spread_book
         \/ /\ sym \in Open
            /\ \E t \in FibTargets(spread_book[sym].type) :
                 LET info == WithTarget(spread_book[sym], t, "Fib 1.618")
                 IN  /\ spread_book' = [spread_book EXCEPT ![sym] = info]
                     /\ run' = [run EXCEPT !.held = info]
                     /\ event' = NoEvent
            /\ mainpc' = "target_write"

\* the assignment spread_book[symbol] = <the record add_fibonacci_target returned>
TargetWrite ==
  /\ UNCHANGED lifeVars
  /\ UNCHANGED cacheVars
  /\ UNCHANGED calcVars
  /\ mainpc = "target_write"
  /\ UNCHANGED <<hour, last_run_date, runs, snapshot, stats, cfg, call>>
  /\ LET sym == run.all_signals[run.idx].sym
     IN  /\ spread_book' = IF sym \in Open THEN spread_book ELSE Put(spread_book, sym, run.held)
         /\ event' = [Ev("target", "written") EXCEPT !.sym = sym, !.hist = TRUE,
                                                    !.ok = sym \notin Open]
         /\ run' = AfterPlaced([run EXCEPT !.held = NoInfo])
         /\ mainpc' = PcOf(run')

\* the first hour of a date the process is awake in
FirstHour == CHOOSE h \in Hours : \A g \in Hours : h <= g

\* the wall clock moves on, to the next hour or past midnight.  The clock
\* is read at line 216 only, so its steps are taken between the calls.
Tick ==
  /\ UNCHANGED lifeVars
  /\ UNCHANGED cacheVars
  /\ UNCHANGED calcVars
  /\ mainpc = "idle"
  /\ \/ /\ hour + 1 \in Hours
        /\ hour' = hour + 1
        /\ UNCHANGED <<last_run_date, runs>>
     \/ /\ hour + 1 \notin Hours
        /\ hour' = FirstHour
        /\ last_run_date' = IF last_run_date = "today" THEN "earlier" ELSE last_run_date
        /\ runs' = 0
  /\ event' = NoEvent
  /\ UNCHANGED <<spread_book, mainpc, run, snapshot, stats, cfg, call>>

Init ==
  /\ hour = FirstHour
  /\ last_run_date = "none"
  /\ runs = 0
  /\ spread_book = << >>
  /\ mainpc = "idle"
  /\ run = NoRun
  /\ snapshot = {}
  /\ stats = [trades_closed |-> 0, profits_taken |-> 0, max_loss |-> 0, total_profit_pct |-> 0]
  /\ cfg = DefaultConfig
  /\ call = NoCall
  /\ event = NoEvent
  /\ Trading
  /\ calc = NoCalc

Next ==
  \/ Tick
  \/ EntryCall
  \/ RunScan
  \/ PlaceStep
  \/ TargetRead
  \/ TargetWrite
  \/ MonitorCycle
  \/ MonitorCheck

Spec == Init /\ [][Next]_vars

\* a deployment whose MAX_POSITIONS is smaller than the number of symbols
\* the scans can signal
TightLimit == 1

LimitInit ==
  /\ hour = FirstHour
  /\ last_run_date = "none"
  /\ runs = 0
  /\ spread_book = << >>
  /\ mainpc = "idle"
  /\ run = NoRun
  /\ snapshot = {}
  /\ stats = [trades_closed |-> 0, profits_taken |-> 0, max_loss |-> 0, total_profit_pct |-> 0]
  /\ cfg = [DefaultConfig EXCEPT !.MAX_POSITIONS = TightLimit]
  /\ call = NoCall
  /\ event = NoEvent
  /\ Trading
  /\ calc = NoCalc

LimitSpec == LimitInit /\ [][Next]_vars

(* ------------------------------------------------------------------ *)
(* The monitor thread on its own                                        *)
(* ------------------------------------------------------------------ *)
\* a position as select_and_place records it for a signal of the runner,
\* with or without a Fibonacci target
HeldPositions ==
  UNION { { IF t = 0 THEN NewPosition(ScanTypes[n], c, a)
              ELSE WithTarget(NewPosition(ScanTypes[n], c, a), t, "Fib 1.618") :
              c \in BarCloses, a \in SignalATRs, t \in {0} \cup FibTargets(ScanTypes[n]) } :
          n \in DOMAIN ScanTypes }

\* deployments differ in the trailing-stop switch and the stop-loss multiplier
MonitorConfigs ==
  { [DefaultConfig EXCEPT !.TRAILING_STOP_ENABLED = t, !.STOP_LOSS_ATR_MULT = m] :
      t \in BOOLEAN, m \in {15, STOP_LOSS_ATR_MULT} }

\* the monitor starts on a book that holds one position; the main thread stays idle
MonitorInit ==
  /\ hour = FirstHour
  /\ last_run_date = "none"
  /\ runs = 0
  /\ spread_book \in { [s \in {Universe[1]} |-> p] : p \in HeldPositions }
  /\ mainpc = "idle"
  /\ run = NoRun
  /\ snapshot = {}
  /\ stats = [trades_closed |-> 0, profits_taken |-> 0, max_loss |-> 0, total_profit_pct |-> 0]
  /\ cfg \in MonitorConfigs
  /\ call = NoCall
  /\ event = NoEvent
  /\ Trading
  /\ calc = NoCalc

MonitorNext ==
  \/ MonitorCycle
  \/ MonitorCheckObserved

MonitorSpec == MonitorInit /\ [][MonitorNext]_vars

(* ------------------------------------------------------------------ *)
(* executor.py / exits.py: the exit target of a new position            *)
(* ------------------------------------------------------------------ *)
\* the keys of the record select_and_place stores (executor.py lines 180-189)
NewPositionKeys == {"type", "entryPrice", "ATR", "legs", "order", "width", "debit", "symbol"}

\* exits.add_r_multiple_target: it reads spread_info['config'], and raises
\* KeyError on a record without that key
ExitsAddRMultipleTarget(info, keys, r_multiple) ==
  IF "config" \notin keys
  THEN [raised |-> TRUE, info |-> info]
  ELSE LET stop_diff == MulTenths(info.ATR, cfg.STOP_LOSS_ATR_MULT)
           stop_loss == IF info.type \in Bullish THEN info.entryPrice - stop_diff
                        ELSE info.entryPrice + stop_diff
           r_value == Abs(info.entryPrice - stop_loss)
           target == IF info.type \in Bullish
                     THEN info.entryPrice + MulTenths(r_value, r_multiple)
                     ELSE info.entryPrice - MulTenths(r_value, r_multiple)
       IN  [raised |-> FALSE, info |-> WithTarget(info, target, "2.0R")]

\* executor.add_r_multiple_target: the wrapper returns the record
\* unchanged when the helper raises
AddRMultipleTarget(info, keys, r_multiple) == ExitsAddRMultipleTarget(info, keys, r_multiple).info

\* exits.add_atr_target
AddAtrTarget(info, atr_multiple) ==
  LET target == IF info.type \in Bullish
                THEN info.entryPrice + MulTenths(info.ATR, atr_multiple)
                ELSE info.entryPrice - MulTenths(info.ATR, atr_multiple)
  IN  WithTarget(info, target, "3.0ATR")

\* lines 191-197 of select_and_place: the records the new position can
\* carry when the call returns.  The Fibonacci helper leaves the record
\* without a target when it gets no price table.
AttachTarget(info) ==
  IF cfg.USE_FIBONACCI_TARGETS
  THEN {info} \cup {WithTarget(info, t, "Fib 1.618") : t \in FibTargets(info.type)}
  ELSE IF cfg.USE_R_MULTIPLE_TARGETS
  THEN {AddRMultipleTarget(info, NewPositionKeys, TARGET_R_MULTIPLE)}
  ELSE IF cfg.USE_ATR_TARGETS
  THEN {AddAtrTarget(info, TARGET_ATR_MULTIPLE)}
  ELSE {info}

(* ------------------------------------------------------------------ *)
(* One call of select_and_place on its own                              *)
(* ------------------------------------------------------------------ *)
\* the arguments and the brokerage's answers of the call
ExecInit ==
  /\ hour = FirstHour
  /\ last_run_date = "none"
  /\ runs = 0
  /\ spread_book = << >>
  /\ mainpc = "idle"
  /\ run = NoRun
  /\ snapshot = {}
  /\ stats = [trades_closed |-> 0, profits_taken |-> 0, max_loss |-> 0, total_profit_pct |-> 0]
  /\ cfg = DefaultConfig
  /\ call \in { [NoCall EXCEPT !.direction = d, !.params = b.params, !.S = b.S,
                                !.fetch = b.fetch, !.fails = b.fails] :
                  d \in Directions, b \in BrokerAnswers([DOMAIN StrikeChain -> FetchOutcomes]) }
  /\ event = NoEvent
  /\ Trading
  /\ calc = NoCalc

\* select_and_place(ib, symbol, direction, bar, atr, config, spread_book)
\* from entry to return, no other thread running
ExecCall ==
  /\ UNCHANGED lifeVars
  /\ UNCHANGED cacheVars
  /\ UNCHANGED calcVars
  /\ ~call.done
  /\ call.params # ""
  /\ LET sym == Universe[1]
         r == SelectAndPlace(call.direction, call.params, StrikeChain, call.S, call.fetch, call.fails)
     IN  /\ call' = [call EXCEPT !.done = TRUE, !.result = r.result,
                                 !.orders = r.orders, !.seen = r.seen]
         /\ event' = [Ev("call", "") EXCEPT !.sym = sym, !.ok = r.result]
         /\ IF r.result
            THEN \E c \in BarCloses, a \in SignalATRs :
                   \E info \in AttachTarget(NewPosition(call.direction, c, a)) :
                     spread_book' = Put(spread_book, sym, info)
            ELSE UNCHANGED spread_book
  /\ UNCHANGED <<hour, last_run_date, runs, mainpc, run, snapshot, stats, cfg>>

ExecSpec == ExecInit /\ [][ExecCall]_vars

\* the switches that choose the exit target of a new position
TargetConfigs ==
  { [DefaultConfig EXCEPT !.USE_FIBONACCI_TARGETS = f, !.USE_R_MULTIPLE_TARGETS = r,
                          !.USE_ATR_TARGETS = a] : f \in BOOLEAN, r \in BOOLEAN, a \in BOOLEAN }

\* a call of select_and_place under each setting of the target switches
TargetInit ==
  /\ hour = FirstHour
  /\ last_run_date = "none"
  /\ runs = 0
  /\ spread_book = << >>
  /\ mainpc = "idle"
  /\ run = NoRun
  /\ snapshot = {}
  /\ stats = [trades_closed |-> 0, profits_taken |-> 0, max_loss |-> 0, total_profit_pct |-> 0]
  /\ cfg \in TargetConfigs
  /\ call \in { [NoCall EXCEPT !.direction = d, !.params = b.params, !.S = b.S,
                                !.fetch = b.fetch, !.fails = b.fails] :
                  d \in Directions, b \in BrokerAnswers(RunFetches) }
  /\ event = NoEvent
  /\ Trading
  /\ calc = NoCalc

TargetSpec == TargetInit /\ [][ExecCall]_vars

\* quote outcomes with the short leg cheaper than, as dear as and dearer
\* than the long leg, the long-leg delta above and below MIN_DELTA
DebitFetchOutcomes ==
  { [r1 |-> TRUE, q1 |-> a, r2 |-> TRUE, q2 |-> b] :
      a \in {Liquid40, Liquid20}, b \in {ShortLiquid, ShortDear, ShortDearer} }

\* deployments with MIN_REWARD_RISK_RATIO 0 and 1.0
DebitConfigs == { [DefaultConfig EXCEPT !.MIN_REWARD_RISK_RATIO = m] : m \in {0, 10} }

\* a call of select_and_place over these quotes and settings
DebitInit ==
  /\ hour = FirstHour
  /\ last_run_date = "none"
  /\ runs = 0
  /\ spread_book = << >>
  /\ mainpc = "idle"
  /\ run = NoRun
  /\ snapshot = {}
  /\ stats = [trades_closed |-> 0, profits_taken |-> 0, max_loss |-> 0, total_profit_pct |-> 0]
  /\ cfg \in DebitConfigs
  /\ call \in { [NoCall EXCEPT !.direction = d, !.params = b.params, !.S = b.S,
                                !.fetch = b.fetch, !.fails = b.fails] :
                  d \in Directions,
                  b \in BrokerAnswers([DOMAIN StrikeChain -> DebitFetchOutcomes]) }
  /\ event = NoEvent
  /\ Trading
  /\ calc = NoCalc

DebitSpec == DebitInit /\ [][ExecCall]_vars

(* ------------------------------------------------------------------ *)
(* runner.py: main, initialize, connect, main_loop, shutdown, and the    *)
(* loop of the monitor thread.  The process is followed before the scan  *)
(* hour and on an empty book: run_entries_if_time returns at its gate    *)
(* and _check_all_positions finds no position to check.                  *)
(* ------------------------------------------------------------------ *)
LoopPcs == {"loop_test", "loop_check", "loop_retry_wait", "loop_entries", "loop_sleep", "loop_error"}

ConnectPcs == {"connect", "connect_pause"}

ShutdownPcs == {"sd_set", "sd_stop", "sd_join", "sd_disconnect", "sd_done"}

\* the main thread is inside main_loop, connect called from it included
InMainLoop == procpc \in LoopPcs \/ (procpc \in ConnectPcs /\ life.caller = "main_loop")

\* line 93 without the test of the attempt number
PauseAfterAlways(n) == TRUE

\* line 93: the pause follows the attempts 0 and 1
PauseAfter(n) == n < 2

\* initialize going on to load the universe whatever connect returned
InitializeContinuesAlways(ok) == "init_load"

\* lines 109-111: initialize after connect returned
InitializeContinues(ok) == IF ok THEN "init_load" ELSE "stopped"

\* the main loop going on to the entry check whatever connect returned
MainLoopContinuesAlways(ok) == "loop_entries"

\* lines 330-337: the iteration after connect returned
MainLoopContinues(ok) == IF ok THEN "loop_entries" ELSE "loop_retry_wait"

\* shutdown going from the signal straight to the disconnect
AfterSetSkipsStop(monitor) == "sd_disconnect"

\* lines 361-362: shutdown after the signal is set
AfterSet(monitor) == IF monitor THEN "sd_stop" ELSE "sd_disconnect"

\* the loop test of the monitor with the signal ignored
LoopContinuesAlways(ev) == TRUE

\* monitor.py line 76
LoopContinues(ev) == ~ev

\* connect returns ok to its caller
ConnectReturn(ok, l) ==
  /\ attempt' = 0
  /\ IF l.caller = "initialize"
     THEN /\ procpc' = InitializeContinues(ok)
          /\ life' = [l EXCEPT !.result = IF ok THEN "true" ELSE "false",
                               !.init = IF InitializeContinues(ok) = "stopped" THEN "false" ELSE @]
     ELSE /\ procpc' = MainLoopContinues(ok)
          /\ life' = [l EXCEPT !.result = IF ok THEN "true" ELSE "false",
                               !.checked = IF ok THEN "reconnected" ELSE "failed"]

\* the for loop of connect goes to its next attempt, or ends and connect returns False
NextAttempt(l) ==
  IF attempt + 1 < 3
  THEN /\ attempt' = attempt + 1
       /\ procpc' = "connect"
       /\ life' = l
  ELSE ConnectReturn(FALSE, l)

\* main() up to the call of connect in initialize
Start ==
  /\ procpc = "start"
  /\ procpc' = "connect"
  /\ attempt' = 0
  /\ life' = [life EXCEPT !.caller = "initialize"]
  /\ UNCHANGED <<exit_event, connected, monpc, trader, args>>
  /\ UNCHANGED tradeVars
  /\ UNCHANGED cacheVars
  /\ UNCHANGED calcVars

\* one pass of the loop of connect (lines 80-93): the session is found
\* connected, or ib.connect establishes it, or the attempt raises
ConnectAttempt ==
  /\ procpc = "connect"
  /\ UNCHANGED <<exit_event, monpc, trader, args>>
  /\ UNCHANGED tradeVars
  /\ UNCHANGED cacheVars
  /\ UNCHANGED calcVars
  /\ LET l == [life EXCEPT !.attempts = @ + 1]
     IN  \/ /\ connected
            /\ UNCHANGED connected
            /\ ConnectReturn(TRUE, l)
         \/ /\ ~connected
            /\ connected' = TRUE
            /\ ConnectReturn(TRUE, l)
         \/ /\ UNCHANGED connected
            /\ LET lr == [l EXCEPT !.raised = @ + 1]
               IN  IF PauseAfter(attempt)
                   THEN /\ procpc' = "connect_pause"
                        /\ life' = lr
                        /\ UNCHANGED attempt
                   ELSE NextAttempt(lr)

\* time.sleep(5) of line 94
ConnectPause ==
  /\ procpc = "connect_pause"
  /\ NextAttempt([life EXCEPT !.pauses = @ + 1])
  /\ UNCHANGED <<exit_event, connected, monpc, trader, args>>
  /\ UNCHANGED tradeVars
  /\ UNCHANGED cacheVars
  /\ UNCHANGED calcVars

\* initialize loads and filters the universe (lines 114-118); an exception
\* makes it return False
InitLoad ==
  /\ procpc = "init_load"
  /\ \/ /\ trader' = [trader EXCEPT !.universe = TRUE]
        /\ procpc' = "init_monitor"
        /\ UNCHANGED life
     \/ /\ procpc' = "stopped"
        /\ life' = [life EXCEPT !.init = "false"]
        /\ UNCHANGED trader
  /\ UNCHANGED <<attempt, exit_event, connected, monpc, args>>
  /\ UNCHANGED tradeVars
  /\ UNCHANGED cacheVars
  /\ UNCHANGED calcVars

\* main without the branch of line 423: it calls main_loop whatever --scan says
AfterInitializeEntersLoop(scan) == "loop_test"

\* main after initialize returned True (lines 423-438): the scan mode when
\* --scan was given, the main loop otherwise
AfterInitialize(scan) == IF scan THEN "scan_mode" ELSE "loop_test"

\* initialize creates and starts the monitor and returns True (lines
\* 121-124); main goes on to the scan mode or to the main loop
InitMonitor ==
  /\ procpc = "init_monitor"
  /\ trader' = [trader EXCEPT !.monitor = TRUE]
  /\ monpc' = "test"
  /\ life' = [life EXCEPT !.init = "true"]
  /\ procpc' = AfterInitialize(args.scan)
  /\ UNCHANGED <<attempt, exit_event, connected, args>>
  /\ UNCHANGED tradeVars
  /\ UNCHANGED cacheVars
  /\ UNCHANGED calcVars

\* main in scan mode (lines 423-435): the scan is run and printed, then
\* shutdown is called; an exception goes to the finally clause
ScanMode ==
  /\ procpc = "scan_mode"
  /\ procpc' = "sd_set"
  /\ \E from \in {"scan", "finally"} :
       life' = [life EXCEPT !.scanned = TRUE, !.sd_from = from, !.log = <<>>]
  /\ UNCHANGED <<attempt, exit_event, connected, monpc, trader, args>>
  /\ UNCHANGED tradeVars
  /\ UNCHANGED cacheVars
  /\ UNCHANGED calcVars

\* while not self.exit_event.is_set()
LoopTest ==
  /\ procpc = "loop_test"
  /\ IF exit_event
     THEN /\ procpc' = "sd_set"
          /\ life' = [life EXCEPT !.entered_loop = TRUE, !.sd_from = "finally", !.log = <<>>]
     ELSE /\ procpc' = "loop_check"
          /\ life' = [life EXCEPT !.entered_loop = TRUE, !.checked = ""]
  /\ UNCHANGED <<attempt, exit_event, connected, monpc, trader, args>>
  /\ UNCHANGED tradeVars
  /\ UNCHANGED cacheVars
  /\ UNCHANGED calcVars

\* the connection check of lines 329-334, up to the call of connect
LoopCheck ==
  /\ procpc = "loop_check"
  /\ \/ /\ connected
        /\ procpc' = "loop_entries"
        /\ life' = [life EXCEPT !.checked = "connected"]
     \/ /\ ~connected
        /\ procpc' = "connect"
        /\ life' = [life EXCEPT !.caller = "main_loop", !.attempts = 0, !.pauses = 0,
                                !.raised = 0, !.result = "none"]
     \/ /\ procpc' = "loop_error"
        /\ UNCHANGED life
  /\ attempt' = 0
  /\ UNCHANGED <<exit_event, connected, monpc, trader, args>>
  /\ UNCHANGED tradeVars
  /\ UNCHANGED cacheVars
  /\ UNCHANGED calcVars

\* time.sleep(60) and continue of lines 333-334
LoopRetryWait ==
  /\ procpc = "loop_retry_wait"
  /\ procpc' = "loop_test"
  /\ UNCHANGED <<attempt, exit_event, connected, monpc, trader, args, life>>
  /\ UNCHANGED tradeVars
  /\ UNCHANGED cacheVars
  /\ UNCHANGED calcVars

\* run_entries_if_time called from the loop, before the scan hour (line
\* 337); an exception goes to the handler of line 347
LoopEntries ==
  /\ procpc = "loop_entries"
  /\ mainpc = "idle"
  /\ ~TimeToRun(hour, last_run_date)
  /\ procpc' \in {"loop_sleep", "loop_error"}
  /\ UNCHANGED <<attempt, exit_event, connected, monpc, trader, args, life>>
  /\ UNCHANGED tradeVars
  /\ UNCHANGED cacheVars
  /\ UNCHANGED calcVars

\* time.sleep of line 340, or of the handler (line 349), then the next iteration
LoopSleep ==
  /\ procpc \in {"loop_sleep", "loop_error"}
  /\ procpc' = "loop_test"
  /\ UNCHANGED <<attempt, exit_event, connected, monpc, trader, args, life>>
  /\ UNCHANGED tradeVars
  /\ UNCHANGED cacheVars
  /\ UNCHANGED calcVars

\* KeyboardInterrupt: in the try block of the loop the handler of line 342
\* calls shutdown and breaks; anywhere else in the loop it reaches the
\* finally clause of main
Interrupt ==
  /\ InMainLoop
  /\ procpc' = "sd_set"
  /\ attempt' = 0
  /\ life' = [life EXCEPT !.interrupted = TRUE, !.log = <<>>,
                          !.sd_from = IF procpc \in {"loop_test", "loop_error"}
                                      THEN "finally" ELSE "interrupt"]
  /\ UNCHANGED <<exit_event, connected, monpc, trader, args>>
  /\ UNCHANGED tradeVars
  /\ UNCHANGED cacheVars
  /\ UNCHANGED calcVars

\* the brokerage session drops while the process is in its main loop
ConnectionLost ==
  /\ InMainLoop
  /\ connected
  /\ connected' = FALSE
  /\ UNCHANGED <<procpc, attempt, exit_event, monpc, trader, args, life>>
  /\ UNCHANGED tradeVars
  /\ UNCHANGED cacheVars
  /\ UNCHANGED calcVars

\* shutdown: self.exit_event.set() (line 360)
ShutdownSet ==
  /\ procpc = "sd_set"
  /\ exit_event' = TRUE
  /\ procpc' = AfterSet(trader.monitor)
  /\ life' = [life EXCEPT !.log = <<"set">>]
  /\ UNCHANGED <<attempt, connected, monpc, trader, args>>
  /\ UNCHANGED tradeVars
  /\ UNCHANGED cacheVars
  /\ UNCHANGED calcVars

\* StopLossMonitor.stop up to the join (monitor.py lines 58-60); with the
\* thread not alive it returns at once
ShutdownStop ==
  /\ procpc = "sd_stop"
  /\ exit_event' = IF monpc \in {"unstarted", "exited"} THEN exit_event ELSE TRUE
  /\ procpc' = IF monpc \in {"unstarted", "exited"} THEN "sd_disconnect" ELSE "sd_join"
  /\ life' = [life EXCEPT !.log = Append(@, "stop")]
  /\ UNCHANGED <<attempt, connected, monpc, trader, args>>
  /\ UNCHANGED tradeVars
  /\ UNCHANGED cacheVars
  /\ UNCHANGED calcVars

\* self.thread.join(timeout) returns: the thread has exited, or the
\* timeout ran out with the thread alive (monitor.py lines 60-66)
ShutdownJoin ==
  /\ procpc = "sd_join"
  /\ procpc' = "sd_disconnect"
  /\ life' = [life EXCEPT !.log = Append(@, IF monpc = "exited" THEN "joined" ELSE "timeout")]
  /\ UNCHANGED <<attempt, exit_event, connected, monpc, trader, args>>
  /\ UNCHANGED tradeVars
  /\ UNCHANGED cacheVars
  /\ UNCHANGED calcVars

\* lines 364-366
ShutdownDisconnect ==
  /\ procpc = "sd_disconnect"
  /\ procpc' = "sd_done"
  /\ connected' = FALSE
  /\ life' = [life EXCEPT !.log = IF connected THEN Append(@, "disconnect") ELSE @]
  /\ UNCHANGED <<attempt, exit_event, monpc, trader, args>>
  /\ UNCHANGED tradeVars
  /\ UNCHANGED cacheVars
  /\ UNCHANGED calcVars

\* shutdown returns: to the handler of line 342 or to the scan mode, from
\* where main reaches its finally clause and calls shutdown again, or to
\* the finally clause, after which main returns
ShutdownReturn ==
  /\ procpc = "sd_done"
  /\ IF life.sd_from = "finally"
     THEN /\ procpc' = "stopped"
          /\ UNCHANGED life
     ELSE /\ procpc' = "sd_set"
          /\ life' = [life EXCEPT !.sd_from = "finally", !.log = <<>>]
  /\ UNCHANGED <<attempt, exit_event, connected, monpc, trader, args>>
  /\ UNCHANGED tradeVars
  /\ UNCHANGED cacheVars
  /\ UNCHANGED calcVars

\* _monitor_loop: the test of line 76
MonLoopTest ==
  /\ monpc = "test"
  /\ monpc' = IF LoopContinues(exit_event) THEN "check" ELSE "exited"
  /\ UNCHANGED <<procpc, attempt, exit_event, connected, trader, args, life>>
  /\ UNCHANGED tradeVars
  /\ UNCHANGED cacheVars
  /\ UNCHANGED calcVars

\* _check_all_positions on the empty book (line 78), or an exception that
\* reaches the handler of line 83
MonLoopCheck ==
  /\ monpc = "check"
  /\ Open = {}
  /\ \/ /\ monpc' = "sleep"
        /\ life' = [life EXCEPT !.mon_err = FALSE]
     \/ /\ monpc' = "err_sleep"
        /\ life' = [life EXCEPT !.mon_err = TRUE]
  /\ UNCHANGED <<procpc, attempt, exit_event, connected, trader, args>>
  /\ UNCHANGED tradeVars
  /\ UNCHANGED cacheVars
  /\ UNCHANGED calcVars

\* time.sleep of line 81 or of line 85
MonLoopSleep ==
  /\ monpc \in {"sleep", "err_sleep"}
  /\ monpc' = "test"
  /\ UNCHANGED <<procpc, attempt, exit_event, connected, trader, args, life>>
  /\ UNCHANGED tradeVars
  /\ UNCHANGED cacheVars
  /\ UNCHANGED calcVars

\* the process is started, in trading or in scan mode
LifeInit ==
  /\ hour = FirstHour
  /\ last_run_date = "none"
  /\ runs = 0
  /\ spread_book = << >>
  /\ mainpc = "idle"
  /\ run = NoRun
  /\ snapshot = {}
  /\ stats = [trades_closed |-> 0, profits_taken |-> 0, max_loss |-> 0, total_profit_pct |-> 0]
  /\ cfg = DefaultConfig
  /\ call = NoCall
  /\ event = NoEvent
  /\ procpc = "start"
  /\ attempt = 0
  /\ exit_event = FALSE
  /\ connected = FALSE
  /\ monpc = "unstarted"
  /\ trader = [universe |-> FALSE, monitor |-> FALSE]
  /\ args \in [scan : BOOLEAN]
  /\ life = NoLife
  /\ NoCache
  /\ calc = NoCalc

MainThread ==
  \/ Start
  \/ ConnectAttempt
  \/ ConnectPause
  \/ InitLoad
  \/ InitMonitor
  \/ ScanMode
  \/ LoopTest
  \/ LoopCheck
  \/ LoopRetryWait
  \/ LoopEntries
  \/ LoopSleep
  \/ ShutdownSet
  \/ ShutdownStop
  \/ ShutdownJoin
  \/ ShutdownDisconnect
  \/ ShutdownReturn

MonitorThread ==
  \/ MonLoopTest
  \/ MonLoopCheck
  \/ MonLoopSleep

LifeNext ==
  \/ Start
  \/ ConnectAttempt
  \/ ConnectPause
  \/ InitLoad
  \/ InitMonitor
  \/ ScanMode
  \/ LoopTest
  \/ LoopCheck
  \/ LoopRetryWait
  \/ LoopEntries
  \/ LoopSleep
  \/ Interrupt
  \/ ConnectionLost
  \/ ShutdownSet
  \/ ShutdownStop
  \/ ShutdownJoin
  \/ ShutdownDisconnect
  \/ ShutdownReturn
  \/ MonLoopTest
  \/ MonLoopCheck
  \/ MonLoopSleep

LifeSpec == LifeInit /\ [][LifeNext]_vars

\* both threads are scheduled: the main thread's next step and the monitor
\* thread's next step are each taken eventually
LifeFairSpec == LifeInit /\ [][LifeNext]_vars /\ WF_vars(MainThread) /\ WF_vars(MonitorThread)

(* ------------------------------------------------------------------ *)
(* scans.py: get_tech_df_cached and the on-disk cache                   *)
(* ------------------------------------------------------------------ *)
\* seconds the clock moves in one step
CacheTick == 43200

\* the tables get_tech_df computes from the bars the brokerage answers
\* with, as the list of their closes; << >> stands for None
Tables == {<<100, 101>>, <<100, 102>>}

\* pickle.dump: a header, the number of rows, the rows
Pickle(df) == <<"pkl", Len(df)>> \o df

\* the file left behind by a dump that raised after the file was opened
Truncated == <<"pkl">>

\* pickle.load: ok = FALSE when it raises
Unpickle(bytes) ==
  IF Len(bytes) >= 2 /\ bytes[1] = "pkl" /\ bytes[2] = Len(bytes) - 2
  THEN [ok |-> TRUE, df |-> SubSeq(bytes, 3, Len(bytes))]
  ELSE [ok |-> FALSE, df |-> <<>>]

\* line 38 with the cache never taken as fresh
CacheFreshNever(f, t) == FALSE

\* line 38 with <= for <
CacheFreshInclusive(f, t) == f.exists /\ t - f.st_mtime <= 86400

\* line 38: cache_file.exists() and cache_age < 86400
CacheFresh(f, t) == f.exists /\ t - f.st_mtime < 86400

\* get_tech_df_cached(ib, sym, config), called by scan_securities and
\* process_symbol for a symbol of the scan, whatever use_cache says: the
\* fresh cache file is loaded, or else the table is fetched and, if there
\* is one, written to the cache file.  Opening the file for writing can
\* fail, which leaves the file as it was, and so can the dump, which
\* leaves a truncated file.
GetTechDfCached ==
  /\ UNCHANGED <<clock, use_cache>>
  /\ UNCHANGED calcVars
  /\ UNCHANGED tradeVars
  /\ UNCHANGED lifeVars
  /\ \E sym \in Symbols :
       LET f == cache_file[sym]
           load == Unpickle(f.bytes)
           g == [got EXCEPT !.flip = ~@, !.sym = sym]
       IN  IF CacheFresh(f, clock) /\ load.ok
           THEN /\ got' = [g EXCEPT !.df = load.df, !.from_cache = TRUE, !.requested = FALSE,
                                    !.saved = FALSE]
                /\ UNCHANGED <<cache_file, requests>>
           ELSE /\ requests < MaxRequests
                /\ requests' = requests + 1
                /\ \/ /\ got' = [g EXCEPT !.df = <<>>, !.from_cache = FALSE, !.requested = TRUE,
                                          !.saved = FALSE]
                      /\ UNCHANGED cache_file
                   \/ \E df \in Tables :
                        \/ /\ cache_file' = [cache_file EXCEPT ![sym] =
                                               [exists |-> TRUE, st_mtime |-> clock, bytes |-> Pickle(df)]]
                           /\ got' = [g EXCEPT !.df = df, !.from_cache = FALSE, !.requested = TRUE,
                                               !.saved = TRUE,
                                               !.kept[sym] = [valid |-> TRUE, df |-> df, at |-> clock]]
                        \/ /\ UNCHANGED cache_file
                           /\ got' = [g EXCEPT !.df = df, !.from_cache = FALSE, !.requested = TRUE,
                                               !.saved = FALSE, !.kept[sym].valid = FALSE]
                        \/ /\ cache_file' = [cache_file EXCEPT ![sym] =
                                               [exists |-> TRUE, st_mtime |-> clock, bytes |-> Truncated]]
                           /\ got' = [g EXCEPT !.df = df, !.from_cache = FALSE, !.requested = TRUE,
                                               !.saved = FALSE, !.kept[sym].valid = FALSE]

\* time passes between two calls
CacheClock ==
  /\ clock < MaxCacheTicks * CacheTick
  /\ clock' = clock + CacheTick
  /\ UNCHANGED <<cache_file, requests, use_cache, got>>
  /\ UNCHANGED calcVars
  /\ UNCHANGED tradeVars
  /\ UNCHANGED lifeVars

\* the trader is started with or without --no-cache on an empty cache directory
CacheInit ==
  /\ hour = FirstHour
  /\ last_run_date = "none"
  /\ runs = 0
  /\ spread_book = << >>
  /\ mainpc = "idle"
  /\ run = NoRun
  /\ snapshot = {}
  /\ stats = [trades_closed |-> 0, profits_taken |-> 0, max_loss |-> 0, total_profit_pct |-> 0]
  /\ cfg = DefaultConfig
  /\ call = NoCall
  /\ event = NoEvent
  /\ procpc = "loop_entries"
  /\ attempt = 0
  /\ exit_event = FALSE
  /\ connected = TRUE
  /\ monpc = "check"
  /\ trader = [universe |-> TRUE, monitor |-> TRUE]
  /\ args = [scan |-> FALSE]
  /\ life = [NoLife EXCEPT !.init = "true", !.entered_loop = TRUE, !.checked = "connected"]
  /\ cache_file = [s \in Symbols |-> NoFile]
  /\ clock = 0
  /\ requests = 0
  /\ use_cache \in BOOLEAN
  /\ got = NoGot
  /\ calc = NoCalc

CacheNext ==
  \/ GetTechDfCached
  \/ CacheClock

CacheSpec == CacheInit /\ [][CacheNext]_vars

(* ------------------------------------------------------------------ *)
(* exits.py: find_recent_swing and add_fibonacci_target, called on a    *)
(* price table.  Prices are whole dollars, extension levels and the     *)
(* target thousandths.                                                  *)
(* ------------------------------------------------------------------ *)
\* the rest of the program while one helper function is followed: the
\* trader idle in its main loop on an empty book
AtRest ==
  /\ hour = FirstHour
  /\ last_run_date = "none"
  /\ runs = 0
  /\ spread_book = << >>
  /\ mainpc = "idle"
  /\ run = NoRun
  /\ snapshot = {}
  /\ stats = [trades_closed |-> 0, profits_taken |-> 0, max_loss |-> 0, total_profit_pct |-> 0]
  /\ cfg = DefaultConfig
  /\ call = NoCall
  /\ event = NoEvent
  /\ Trading

\* the longest price table of the swing search
MaxBars == 4

SwingPrices == {90, 100, 110}

\* the low and the high of one daily bar
SwingBars == {b \in [low : SwingPrices, high : SwingPrices] : b.low <= b.high}

SwingTables == UNION {[1..n -> SwingBars] : n \in 1..MaxBars}

\* FIBONACCI_EXTENSION and one of FIBONACCI_ALT_LEVELS
FIBONACCI_EXTENSION == 1618
ExtensionLevels == {FIBONACCI_EXTENSION, 2000}

\* df[name].values
Column(df, name) == [k \in DOMAIN df |-> df[k][name]]

SeqMax(s) == CHOOSE x \in {s[k] : k \in DOMAIN s} : \A k \in DOMAIN s : s[k] <= x

SeqMin(s) == CHOOSE x \in {s[k] : k \in DOMAIN s} : \A k \in DOMAIN s : x <= s[k]

\* prices[-i] of a Python sequence, i >= 1
FromEnd(prices, i) == prices[Len(prices) - i + 1]

\* prices[-i+1:], i >= 2
AfterFromEnd(prices, i) == SubSeq(prices, Len(prices) - i + 2, Len(prices))

\* the loop 'for i in range(window, 1, -1)' of find_recent_swing from i on:
\* the first bar, oldest first, that is lower (bullish) or higher (bearish)
\* than both neighbours, and the extreme of the bars after it
RECURSIVE SwingScan(_, _, _)
SwingScan(prices, i, bullish) ==
  IF i <= 1 THEN [found |-> FALSE, start |-> 0, end |-> 0, index |-> 0]
  ELSE IF bullish /\ FromEnd(prices, i) < FromEnd(prices, i + 1)
                  /\ FromEnd(prices, i) < FromEnd(prices, i - 1)
       THEN [found |-> TRUE, start |-> FromEnd(prices, i),
             end |-> SeqMax(AfterFromEnd(prices, i)), index |-> -i]
  ELSE IF ~bullish /\ FromEnd(prices, i) > FromEnd(prices, i + 1)
                   /\ FromEnd(prices, i) > FromEnd(prices, i - 1)
       THEN [found |-> TRUE, start |-> FromEnd(prices, i),
             end |-> SeqMin(AfterFromEnd(prices, i)), index |-> -i]
  ELSE SwingScan(prices, i - 1, bullish)

\* find_recent_swing: (swing_start_price, swing_end_price, swing_start_index)
FindRecentSwing(df, direction) ==
  LET bullish == direction \in Bullish
      window == Min(20, Len(df) - 2)
      prices == Column(df, IF bullish THEN "low" ELSE "high")
      swing == SwingScan(prices, window, bullish)
  IN  IF swing.found THEN swing
      ELSE IF bullish
           THEN [found |-> FALSE, start |-> SeqMin(Column(df, "low")),
                 end |-> SeqMax(Column(df, "high")), index |-> -10]
           ELSE [found |-> FALSE, start |-> SeqMax(Column(df, "high")),
                 end |-> SeqMin(Column(df, "low")), index |-> -10]

\* line 74 without abs
SwingRangeSigned(swing_start, swing_end) == swing_end - swing_start

\* line 74
SwingRange(swing_start, swing_end) == Abs(swing_end - swing_start)

NoTarget == [price_target |-> 0, target_type |-> "", swing_start |-> 0, swing_end |-> 0]

\* the keys add_fibonacci_target sets in spread_info for a record of the
\* given type; price_target in thousandths of a dollar
AddFibonacciTarget(type, df, extension_level) ==
  LET swing == FindRecentSwing(df, type)
      swing_range == SwingRange(swing.start, swing.end)
      target == IF type \in Bullish
                THEN 1000 * swing.end + swing_range * extension_level
                ELSE 1000 * swing.end - swing_range * extension_level
  IN  [price_target |-> target,
       target_type |-> IF extension_level = FIBONACCI_EXTENSION THEN "Fib 1.618" ELSE "Fib 2.0",
       swing_start |-> swing.start, swing_end |-> swing.end]

FibInit ==
  /\ AtRest
  /\ calc \in {[fn |-> "add_fibonacci_target", done |-> FALSE, type |-> d, df |-> t,
                extension_level |-> x, out |-> NoTarget] :
                 d \in Directions, t \in SwingTables, x \in ExtensionLevels}

\* the call returns
FibCall ==
  /\ calc.fn = "add_fibonacci_target"
  /\ ~calc.done
  /\ calc' = [calc EXCEPT !.done = TRUE,
                          !.out = AddFibonacciTarget(calc.type, calc.df, calc.extension_level)]
  /\ UNCHANGED tradeVars
  /\ UNCHANGED lifeVars
  /\ UNCHANGED cacheVars

FibSpec == FibInit /\ [][FibCall]_vars

\* find_recent_swing called on its own, on tables long enough to hold two
\* swing points inside the window
MaxSwingBars == 6

SwingSteps == {[low |-> 90, high |-> 100], [low |-> 100, high |-> 110], [low |-> 90, high |-> 110]}

LongTables == UNION {[1..n -> SwingSteps] : n \in 3..MaxSwingBars}

SwingInit ==
  /\ AtRest
  /\ calc \in {[fn |-> "find_recent_swing", done |-> FALSE, direction |-> d, df |-> t,
                out |-> [found |-> FALSE, start |-> 0, end |-> 0, index |-> 0]] :
                 d \in Directions, t \in LongTables}

\* the call returns
SwingCall ==
  /\ calc.fn = "find_recent_swing"
  /\ ~calc.done
  /\ calc' = [calc EXCEPT !.done = TRUE, !.out = FindRecentSwing(calc.df, calc.direction)]
  /\ UNCHANGED tradeVars
  /\ UNCHANGED lifeVars
  /\ UNCHANGED cacheVars

SwingSpec == SwingInit /\ [][SwingCall]_vars

(* ------------------------------------------------------------------ *)
(* scans.py: bull_pullback_condition on a table of daily bars           *)
(* ------------------------------------------------------------------ *)
\* the longest table of the pattern test
MaxPatternBars == 3

\* NaN: the MA50 of a bar with fewer than 50 bars behind it, and what
\* shift() puts into the rows it leaves empty
NaN == -1

\* bars with a rising, a falling or a flat candle
PatternBars ==
  {b \in [open : {150, 155}, close : {150, 155}, low : {151, 153}, MA50 : {NaN, 151, 152}] :
     ~(b.open = 155 /\ b.close = 155)}

PatternTables == UNION {[1..n -> PatternBars] : n \in 2..MaxPatternBars}

\* a > b and a <= b of two floats: False when either is NaN
Gt(a, b) == a # NaN /\ b # NaN /\ a > b
Le(a, b) == a # NaN /\ b # NaN /\ a <= b

\* Series.shift(k) of a numeric column
ShiftNum(col, k) == [i \in DOMAIN col |-> IF i > k THEN col[i - k] ELSE NaN]

\* Series.shift(k) of a boolean column: an object column of True, False and NaN
ShiftBool(col, k) ==
  [i \in DOMAIN col |-> IF i > k THEN (IF col[i - k] THEN "True" ELSE "False") ELSE "NaN"]

\* x & y of two such columns, row by row: NaN counts as False
AndNA(x, y) == [i \in DOMAIN x |-> x[i] = "True" /\ y[i] = "True"]

\* line 210 with shift(1) for shift(2): the bar before the last one alone
TwoBullishOneBar(bullish_candles) ==
  AndNA(ShiftBool(bullish_candles, 1), ShiftBool(bullish_candles, 1))

\* line 210
TwoBullish(bullish_candles) ==
  AndNA(ShiftBool(bullish_candles, 2), ShiftBool(bullish_candles, 1))

\* bull_pullback_condition: the boolean it returns
BullPullbackCondition(df) ==
  IF Len(df) < 3 THEN FALSE
  ELSE
    LET bullish_candles == [i \in DOMAIN df |-> df[i].close > df[i].open]
        two_bullish == TwoBullish(bullish_candles)
        ma50 == Column(df, "MA50")
        ma_rising == [i \in DOMAIN df |-> Gt(ma50[i], ShiftNum(ma50, 1)[i])]
        price_at_ma == [i \in DOMAIN df |-> Le(df[i].low, ma50[i])]
        condition_met == [i \in DOMAIN df |-> two_bullish[i] /\ ma_rising[i] /\ price_at_ma[i]]
    IN  condition_met[Len(df)]

PatternInit ==
  /\ AtRest
  /\ calc \in {[fn |-> "bull_pullback_condition", done |-> FALSE, df |-> t, out |-> FALSE] :
                 t \in PatternTables}

\* the call returns
PatternCall ==
  /\ calc.fn = "bull_pullback_condition"
  /\ ~calc.done
  /\ calc' = [calc EXCEPT !.done = TRUE, !.out = BullPullbackCondition(calc.df)]
  /\ UNCHANGED tradeVars
  /\ UNCHANGED lifeVars
  /\ UNCHANGED cacheVars

PatternSpec == PatternInit /\ [][PatternCall]_vars

(* ------------------------------------------------------------------ *)
(* executor.py: retry_api_call                                          *)
(* ------------------------------------------------------------------ *)
\* the largest max_retries a caller passes (the default is 3)
MaxRetries == 3

\* what one call of the operation does: it raises, or it returns a value,
\* which may be None, zero or empty
CallOutcomes == {"raise", "None", "0", "[]", "42.5"}

\* the outcome of the k-th call of the operation, should it be made
CallScripts == [1..MaxRetries -> CallOutcomes]

\* lines 300-303 without the test of the attempt number
RetryPausesAlways(n, max_retries) == TRUE

\* lines 300-303: a pause follows every failed attempt but the last
RetryPauses(n, max_retries) == n < max_retries - 1

RetryInit ==
  /\ AtRest
  /\ calc \in {[fn |-> "retry_api_call", pc |-> "for", max_retries |-> m, ib |-> i,
                script |-> f, attempt |-> 0, calls |-> 0, log |-> <<>>, result |-> ""] :
                 m \in 0..MaxRetries, i \in BOOLEAN, f \in CallScripts}

\* one pass of the loop body up to the pause: func() returns and so does
\* retry_api_call, or it raises and the handler logs the failure
RetryAttempt ==
  /\ calc.fn = "retry_api_call"
  /\ calc.pc = "for"
  /\ calc.attempt < calc.max_retries
  /\ LET outcome == calc.script[calc.calls + 1]
         called == [calc EXCEPT !.calls = @ + 1, !.log = Append(@, "call")]
     IN  calc' = IF outcome # "raise"
                 THEN [called EXCEPT !.pc = "done", !.result = outcome]
                 ELSE IF RetryPauses(calc.attempt, calc.max_retries)
                      THEN [called EXCEPT !.pc = "sleep"]
                      ELSE [called EXCEPT !.attempt = @ + 1]
  /\ UNCHANGED tradeVars
  /\ UNCHANGED lifeVars
  /\ UNCHANGED cacheVars

\* ib.sleep(sleep_time) with a connection object, time.sleep(sleep_time)
\* without, then the next pass
RetryPause ==
  /\ calc.fn = "retry_api_call"
  /\ calc.pc = "sleep"
  /\ calc' = [calc EXCEPT !.pc = "for", !.attempt = @ + 1,
                          !.log = Append(@, IF calc.ib THEN "ib.sleep" ELSE "time.sleep")]
  /\ UNCHANGED tradeVars
  /\ UNCHANGED lifeVars
  /\ UNCHANGED cacheVars

\* the loop is exhausted: return None (line 306)
RetryExhausted ==
  /\ calc.fn = "retry_api_call"
  /\ calc.pc = "for"
  /\ calc.attempt >= calc.max_retries
  /\ calc' = [calc EXCEPT !.pc = "done", !.result = "None"]
  /\ UNCHANGED tradeVars
  /\ UNCHANGED lifeVars
  /\ UNCHANGED cacheVars

RetryNext ==
  \/ RetryAttempt
  \/ RetryPause
  \/ RetryExhausted

RetrySpec == RetryInit /\ [][RetryNext]_vars

(* ------------------------------------------------------------------ *)
(* universe.py: load_sp500_tickers and the file sp500_tickers.csv.  A   *)
(* file is the list of its lines, a line the list of its fields as      *)
(* csv.reader splits it: a blank line has none.                         *)
(* ------------------------------------------------------------------ *)
\* the most lines of a ticker file
MaxLines == 2

TickerLines == {<<"AAPL">>, <<"MSFT">>, << >>, <<"V", "Visa">>}

TickerFiles == UNION {[1..n -> TickerLines] : n \in 0..MaxLines}

\* 7 * 86400
SevenDays == 604800

\* time.time() at the call, and the modification times a file can have then
LoadTime == 1000000
ModTimes == {LoadTime - SevenDays - 1, LoadTime - SevenDays, LoadTime - SevenDays + 1,
             LoadTime - 60, LoadTime + 60}

NoTickerFile == [exists |-> FALSE, st_mtime |-> 0, lines |-> << >>]

\* the table of the web page with '.' replaced by '-' in every symbol
Downloaded == <<"AAPL", "BRK-B">>

Fallback == <<"AAPL", "MSFT", "AMZN", "GOOGL", "META", "TSLA", "NVDA", "JPM", "V", "PG">>

\* line 29 with <= for <
TickersFreshInclusive(f, now) == f.exists /\ now - f.st_mtime <= SevenDays

\* line 29
TickersFresh(f, now) == f.exists /\ now - f.st_mtime < SevenDays

\* [row[0] for row in reader if row]
FirstFields(lines) ==
  LET rows == SelectSeq(lines, LAMBDA row : row # << >>)
  IN  [k \in DOMAIN rows |-> rows[k][1]]

\* the file as lines 44-47 write it: one ticker to a line
WrittenLines(tickers) == [k \in DOMAIN tickers |-> <<tickers[k]>>]

LoadInit ==
  /\ AtRest
  /\ calc \in {[fn |-> "load_sp500_tickers", done |-> FALSE, now |-> LoadTime, before |-> f,
                file |-> f, network |-> FALSE, result |-> << >>] :
                 f \in {NoTickerFile} \cup
                       {[exists |-> TRUE, st_mtime |-> m, lines |-> l] :
                          m \in ModTimes, l \in TickerFiles}}

\* load_sp500_tickers: the recent file is read; otherwise the page is
\* downloaded and the file written, or the download fails, or the write
\* fails after open() has emptied the file, and the fallback list is returned
LoadSp500Tickers ==
  /\ calc.fn = "load_sp500_tickers"
  /\ ~calc.done
  /\ IF TickersFresh(calc.file, calc.now)
     THEN calc' = [calc EXCEPT !.done = TRUE, !.result = FirstFields(calc.file.lines)]
     ELSE \/ calc' = [calc EXCEPT !.done = TRUE, !.network = TRUE, !.result = Downloaded,
                                  !.file = [exists |-> TRUE, st_mtime |-> calc.now,
                                            lines |-> WrittenLines(Downloaded)]]
          \/ calc' = [calc EXCEPT !.done = TRUE, !.network = TRUE, !.result = Fallback]
          \/ calc' = [calc EXCEPT !.done = TRUE, !.network = TRUE, !.result = Fallback,
                                  !.file = [exists |-> TRUE, st_mtime |-> calc.now,
                                            lines |-> << >>]]
  /\ UNCHANGED tradeVars
  /\ UNCHANGED lifeVars
  /\ UNCHANGED cacheVars

LoadSpec == LoadInit /\ [][LoadSp500Tickers]_vars

(* ------------------------------------------------------------------ *)
(* scans.py: scan_securities and scan_securities_parallel over the same *)
(* symbol list.  What a symbol's processing meets is drawn per symbol:   *)
(* no table or fewer than 52 bars, an exception, the condition false,   *)
(* the condition true on a bar below MIN_VOLUME, or a match.            *)
(* ------------------------------------------------------------------ *)
\* the longest symbol list scanned
MaxScanList == 3

SymbolCases == {"nodata", "raise", "no", "thin", "match"}

ScanLists == UNION {[1..n -> Symbols] : n \in 0..MaxScanList}

\* the tuple (sym, df.iloc[-1], df.ATR14.iloc[-1])
SignalOf(sym) == [sym |-> sym, bar |-> <<sym, "iloc[-1]">>, atr |-> <<sym, "ATR14">>]

\* the value None
None == [sym |-> "", bar |-> << >>, atr |-> << >>]

\* process_symbol without the volume test of line 122
ProcessSymbolAnyVolume(sym, data) ==
  IF data[sym] \in {"match", "thin"} THEN SignalOf(sym) ELSE None

\* process_symbol (lines 114-126): the signal, or None
ProcessSymbol(sym, data) ==
  IF data[sym] = "raise" THEN None
  ELSE IF data[sym] = "nodata" THEN None
  ELSE IF data[sym] = "match" THEN SignalOf(sym)
  ELSE None

\* scan_securities: the loop of lines 174-186 from symbol i on
RECURSIVE ScanSecurities(_, _, _, _)
ScanSecurities(symbols, data, i, signals) ==
  IF i > Len(symbols) THEN signals
  ELSE LET sym == symbols[i]
       IN  IF data[sym] = "raise" THEN ScanSecurities(symbols, data, i + 1, signals)
           ELSE IF data[sym] = "nodata" THEN ScanSecurities(symbols, data, i + 1, signals)
           ELSE IF data[sym] = "match"
           THEN ScanSecurities(symbols, data, i + 1, Append(signals, SignalOf(sym)))
           ELSE ScanSecurities(symbols, data, i + 1, signals)

\* [r for r in results if r is not None]
NotNone(results) == SelectSeq(results, LAMBDA r : r # None)

ScanInit ==
  /\ AtRest
  /\ calc \in {[fn |-> "scan_securities", symbols |-> l, data |-> d,
                seq_done |-> FALSE, seq_signals |-> << >>,
                pending |-> DOMAIN l, results |-> [k \in DOMAIN l |-> None],
                order |-> << >>, par_done |-> FALSE, par_signals |-> << >>] :
                 l \in ScanLists, d \in [Symbols -> SymbolCases]}

\* scan_securities from call to return
SequentialScan ==
  /\ calc.fn = "scan_securities"
  /\ ~calc.seq_done
  /\ calc' = [calc EXCEPT !.seq_done = TRUE,
                          !.seq_signals = ScanSecurities(calc.symbols, calc.data, 1, << >>)]
  /\ UNCHANGED tradeVars
  /\ UNCHANGED lifeVars
  /\ UNCHANGED cacheVars

\* a worker process finishes one item of executor.map: the items finish
\* in any order, the result goes to the item's position (order: history of
\* the positions in the order they finished)
WorkerFinishes ==
  /\ calc.fn = "scan_securities"
  /\ \E k \in calc.pending :
       calc' = [calc EXCEPT !.pending = @ \ {k},
                            !.results[k] = ProcessSymbol(calc.symbols[k], calc.data),
                            !.order = Append(@, k)]
  /\ UNCHANGED tradeVars
  /\ UNCHANGED lifeVars
  /\ UNCHANGED cacheVars

\* list(executor.map(...)) is complete; lines 151-155
ParallelReturn ==
  /\ calc.fn = "scan_securities"
  /\ calc.pending = {}
  /\ ~calc.par_done
  /\ calc' = [calc EXCEPT !.par_done = TRUE, !.par_signals = NotNone(calc.results)]
  /\ UNCHANGED tradeVars
  /\ UNCHANGED lifeVars
  /\ UNCHANGED cacheVars

ScanNext == SequentialScan \/ WorkerFinishes \/ ParallelReturn

ScanSpec == ScanInit /\ [][ScanNext]_vars

(* ------------------------------------------------------------------ *)
(* monitor.py: _check_exit_conditions called on its own, for position   *)
(* records with and without a price target and a trailing stop          *)
(* ------------------------------------------------------------------ *)
\* position records entered at 100 with an ATR of 2: any type, a target
\* or none, a trailing stop already armed or none
ExitInfos ==
  LET base(d) == NewPosition(d, 100, 2)
      targets(d) == {base(d)} \cup {WithTarget(base(d), t, "Fib 1.618") : t \in PriceSet}
      armed(i, s) == [i EXCEPT !.has_trailing = TRUE, !.trailing_stop_price = s,
                               !.trailing_high = IF i.type \in Bullish THEN s + 1 ELSE 0,
                               !.trailing_low = IF i.type \in Bullish THEN 0 ELSE s - 1]
  IN  UNION {targets(d) \cup {armed(i, s) : i \in targets(d), s \in PriceSet} : d \in Directions}

ExitCheckInit ==
  /\ hour = FirstHour
  /\ last_run_date = "none"
  /\ runs = 0
  /\ spread_book = << >>
  /\ mainpc = "idle"
  /\ run = NoRun
  /\ snapshot = {}
  /\ stats = [trades_closed |-> 0, profits_taken |-> 0, max_loss |-> 0, total_profit_pct |-> 0]
  /\ cfg \in MonitorConfigs
  /\ call = NoCall
  /\ event = NoEvent
  /\ Trading
  /\ calc \in {[fn |-> "_check_exit_conditions", done |-> FALSE, info |-> i,
                current_price |-> p, reason |-> "", out |-> i] :
                 i \in ExitInfos, p \in PriceSet}

\* the call returns its reason and leaves the record as out
ExitCheck ==
  /\ calc.fn = "_check_exit_conditions"
  /\ ~calc.done
  /\ LET c == CheckExitConditions(calc.info, calc.current_price)
     IN  calc' = [calc EXCEPT !.done = TRUE, !.reason = c.reason, !.out = c.info]
  /\ UNCHANGED tradeVars
  /\ UNCHANGED lifeVars
  /\ UNCHANGED cacheVars

ExitCheckSpec == ExitCheckInit /\ [][ExitCheck]_vars

(* ------------------------------------------------------------------ *)
(* monitor.py: _exit_position for one held spread, with the account at  *)
(* the brokerage: the size held in each leg, the entry order and the    *)
(* closing orders.  Leg 1 is the bought option, leg 2 the sold one.     *)
(* ------------------------------------------------------------------ *)
\* line 240
CloseSide == "SELL"

\* what can go wrong in the close step of a leg: nothing, ib.position
\* raises, ib.placeOrder raises
LegFaults == {"none", "position", "placeOrder"}

ExitReasons == {"stop_loss", "profit_target", "trailing_stop"}

\* the sizes the two legs hold once the entry order of executor.py lines
\* 162-174 has filled: one contract bought, one contract sold
EntryFilled == <<1, -1>>

\* the size of a leg after an order for it has filled
AfterFill(size, order) ==
  IF order.action = "BUY" THEN size + order.totalQuantity ELSE size - order.totalQuantity

\* lines 248-249
CloseOrder(k, pos) ==
  [leg |-> k, orderType |-> "MKT", action |-> CloseSide, totalQuantity |-> Abs(pos),
   filled |-> FALSE]

\* line 247: ib.position returned an object and its size is not zero
HasPosition(found, pos) == found /\ pos # 0

CloseInit ==
  /\ AtRest
  /\ calc \in {[fn |-> "_exit_position", pc |-> "legs", leg |-> 1, reason |-> r,
                entry |-> e, position |-> IF e = "filled" THEN EntryFilled ELSE <<0, 0>>,
                reports |-> rep, fault |-> f, orders |-> << >>, success |-> TRUE,
                inbook |-> TRUE, filled_at |-> IF e = "filled" THEN "before" ELSE "never"] :
                 r \in ExitReasons, e \in {"working", "filled"},
                 rep \in [1..2 -> BOOLEAN], f \in [1..2 -> LegFaults]}

\* one turn of the loop of lines 244-254.  reports[k] says whether
\* ib.position returns an object for a leg in which nothing is held.
ExitLeg ==
  /\ calc.fn = "_exit_position"
  /\ calc.pc = "legs"
  /\ calc.leg <= 2
  /\ LET k == calc.leg
         pos == calc.position[k]
         found == pos # 0 \/ calc.reports[k]
         next == [calc EXCEPT !.leg = k + 1]
     IN  calc' = IF calc.fault[k] = "position"
                 THEN [next EXCEPT !.success = FALSE]
                 ELSE IF ~HasPosition(found, pos)
                 THEN next
                 ELSE IF calc.fault[k] = "placeOrder"
                 THEN [next EXCEPT !.success = FALSE]
                 ELSE [next EXCEPT !.orders = Append(@, CloseOrder(k, pos))]
  /\ UNCHANGED tradeVars
  /\ UNCHANGED lifeVars
  /\ UNCHANGED cacheVars

\* _exit_position returns success, and _check_position (lines 135-138)
\* pops the position from the book when it is True
ExitReturn ==
  /\ calc.fn = "_exit_position"
  /\ calc.pc = "legs"
  /\ calc.leg = 3
  /\ calc' = [calc EXCEPT !.pc = "returned", !.inbook = ~calc.success]
  /\ UNCHANGED tradeVars
  /\ UNCHANGED lifeVars
  /\ UNCHANGED cacheVars

\* the brokerage fills a closing order
CloseFill ==
  /\ calc.fn = "_exit_position"
  /\ \E j \in DOMAIN calc.orders :
       LET o == calc.orders[j]
       IN  /\ ~o.filled
           /\ calc' = [calc EXCEPT !.orders[j].filled = TRUE,
                                   !.position[o.leg] = AfterFill(@, o)]
  /\ UNCHANGED tradeVars
  /\ UNCHANGED lifeVars
  /\ UNCHANGED cacheVars

\* the brokerage fills the good-till-cancelled entry order: nothing in the
\* program cancels it, so it can fill at any time while it is working;
\* filled_at records whether the position was still in the book then
EntryFill ==
  /\ calc.fn = "_exit_position"
  /\ calc.entry = "working"
  /\ calc' = [calc EXCEPT !.entry = "filled",
                          !.filled_at = IF calc.inbook THEN "held" ELSE "dropped",
                          !.position = [k \in 1..2 |-> calc.position[k] + EntryFilled[k]]]
  /\ UNCHANGED tradeVars
  /\ UNCHANGED lifeVars
  /\ UNCHANGED cacheVars

CloseNext == ExitLeg \/ ExitReturn \/ CloseFill \/ EntryFill

CloseSpec == CloseInit /\ [][CloseNext]_vars

(* ------------------------------------------------------------------ *)
(* scans.py: get_tech_df, high_base_condition and low_base_condition,   *)
(* and the daily entry run on the tables they are given.  A table is    *)
(* the sequence of its daily bars; the columns get_tech_df adds are     *)
(* computed per row.                                                    *)
(* ------------------------------------------------------------------ *)
MIN_VOLUME == 1000000

\* the bar counts the brokerage answers a historical-data request with
BarCounts == {49, 60, 251, 252}

\* a quiet stretch of trading: every bar but the last
BaseBar == [close |-> 100, high |-> 104, low |-> 96, ATR14 |-> 4, volume |-> MIN_VOLUME]

\* the last bar: at, below or above the earlier closes, narrow or wide
LastBars ==
  {[close |-> c, high |-> c + r, low |-> c - r, ATR14 |-> 2 * r, volume |-> MIN_VOLUME] :
     c \in {50, 100, 200}, r \in {1, 4}}

\* what reqHistoricalData returns (lines 78-84)
HistoricalBars(n, last) == [i \in 1..n |-> IF i = n THEN last ELSE BaseBar]

\* get_tech_df (lines 76-108): None, written << >>, when there are fewer
\* than 50 bars, else the table
GetTechDf(bars) == IF Len(bars) = 0 \/ Len(bars) < 50 THEN << >> ELSE bars

\* line 102 with rolling(252, min_periods=1)
W52HighFromFirstBar(df, i) ==
  SeqMax([k \in 1..Min(i, 252) |-> df[i - Min(i, 252) + k].close])

\* line 102: df['close'].rolling(252).max(), no value on the first 251 rows
W52High(df, i) ==
  IF i < 252 THEN NaN ELSE SeqMax([k \in 1..252 |-> df[i - 252 + k].close])

\* line 103: df['close'].rolling(252).min()
W52Low(df, i) ==
  IF i < 252 THEN NaN ELSE SeqMin([k \in 1..252 |-> df[i - 252 + k].close])

\* line 105: range_pct, in percent; the bars used divide without remainder
RangePct(df, i) == (100 * (df[i].high - df[i].low)) \div df[i].close

RECURSIVE SumRows(_, _, _)
SumRows(col, from, to) == IF from > to THEN 0 ELSE col[to] + SumRows(col, from, to - 1)

\* x / col.rolling(20).mean() < tenths / 10 on row i (lines 104, 106 and
\* the masks of lines 276-277): False while the mean has no value
RatioBelow(col, i, tenths) ==
  /\ i >= 20
  /\ \A k \in (i - 19)..i : col[k] # NaN
  /\ 10 * 20 * col[i] < tenths * SumRows(col, i - 19, i)

ColATR14(df) == [i \in DOMAIN df |-> df[i].ATR14]

ColRangePct(df) == [i \in DOMAIN df |-> RangePct(df, i)]

\* high_base_condition (lines 265-281), the boolean it returns
HighBaseCondition(df) ==
  IF Len(df) < 20 THEN FALSE
  ELSE LET i == Len(df)
           near_highs == W52High(df, i) # NaN /\ 100 * df[i].close >= 95 * W52High(df, i)
           low_volatility == RatioBelow(ColATR14(df), i, 8)
           tight_range == RatioBelow(ColRangePct(df), i, 8)
       IN  near_highs /\ low_volatility /\ tight_range

\* low_base_condition (lines 295-311)
LowBaseCondition(df) ==
  IF Len(df) < 20 THEN FALSE
  ELSE LET i == Len(df)
           near_lows == W52Low(df, i) # NaN /\ 100 * df[i].close <= 105 * W52Low(df, i)
           low_volatility == RatioBelow(ColATR14(df), i, 8)
           tight_range == RatioBelow(ColRangePct(df), i, 8)
       IN  near_lows /\ low_volatility /\ tight_range

\* the loop body of scan_securities (lines 175-182) for one symbol: does
\* it append a signal
Emits(df, result) ==
  /\ df # << >>
  /\ Len(df) >= 52
  /\ result
  /\ df[Len(df)].volume >= MIN_VOLUME

\* the table of a symbol in this run
TableOf(sym) == GetTechDf(HistoricalBars(calc.bars, calc.last[sym]))

\* what the high base and low base scans return on these tables
BaseHits ==
  {p \in PairSet :
     \/ p.scan = "high_base" /\ Emits(TableOf(p.sym), HighBaseCondition(TableOf(p.sym)))
     \/ p.scan = "low_base" /\ Emits(TableOf(p.sym), LowBaseCondition(TableOf(p.sym)))}

\* what the other two scans can return on them; their conditions are left open
OtherHits ==
  {h \in ScanHits : \A p \in h : /\ p.scan \in {"bull_pullbacks", "bear_rallies"}
                                 /\ Emits(TableOf(p.sym), TRUE)}

\* what the columns and the two conditions give on the last bar of a table
BaseResult(df) ==
  IF df = << >> THEN [none |-> TRUE]
  ELSE [none |-> FALSE, w52_high |-> W52High(df, Len(df)), w52_low |-> W52Low(df, Len(df)),
        high_base |-> HighBaseCondition(df), low_base |-> LowBaseCondition(df)]

\* the entry run has passed its gate and is about to scan; every symbol
\* was fetched with the same LOOKBACK_DAYS
BaseInit ==
  /\ hour \in {h \in Hours : h >= SCAN_HOUR_ET}
  /\ last_run_date = "today"
  /\ runs = 1
  /\ spread_book = << >>
  /\ mainpc = "scan"
  /\ run = NoRun
  /\ snapshot = {}
  /\ stats = [trades_closed |-> 0, profits_taken |-> 0, max_loss |-> 0, total_profit_pct |-> 0]
  /\ cfg = DefaultConfig
  /\ call = NoCall
  /\ event = Ev("run_begin", "go")
  /\ Trading
  /\ calc \in {[fn |-> "base_scans", done |-> FALSE, bars |-> n, last |-> l,
                out |-> [s \in Symbols |-> [none |-> TRUE]]] :
                 n \in BarCounts, l \in [Symbols -> LastBars]}

\* run_scan('all') on these tables, the flattening and the capacity
\* (runner.py lines 232-255)
BaseRunScan ==
  /\ UNCHANGED lifeVars
  /\ UNCHANGED cacheVars
  /\ mainpc = "scan"
  /\ calc.fn = "base_scans"
  /\ UNCHANGED <<hour, last_run_date, runs, spread_book, snapshot, stats, cfg, call>>
  /\ calc' = [calc EXCEPT !.done = TRUE, !.out = [s \in Symbols |-> BaseResult(TableOf(s))]]
  /\ \/ /\ mainpc' = "idle"
        /\ run' = NoRun
        /\ event' = Ev("scan", "raise")
     \/ \E other \in OtherHits :
          LET bar == [s \in Symbols |-> [close |-> calc.last[s].close, atr |-> calc.last[s].ATR14]]
              flat == Flatten(other \cup BaseHits, bar)
              open == Cardinality(Open)
              space == SpaceAvailable(open)
              sigs == Truncate(flat, space)
          IN  /\ event' = [Ev("scan", "ok") EXCEPT !.flat = flat, !.n = open]
              /\ IF space <= 0 \/ sigs = <<>>
                 THEN /\ mainpc' = "idle"
                      /\ run' = NoRun
                 ELSE /\ mainpc' = "place"
                      /\ run' = [NoRun EXCEPT !.found = Len(flat), !.all_signals = sigs,
                                              !.space_available = space, !.idx = 1,
                                              !.open_at_capacity = open]

BaseNext ==
  \/ BaseRunScan
  \/ PlaceStep
  \/ TargetRead
  \/ TargetWrite

BaseSpec == BaseInit /\ [][BaseNext]_vars

(* ------------------------------------------------------------------ *)
(* Properties of the closing of a position                              *)
(* ------------------------------------------------------------------ *)
\* the closing orders the step submits
NewCloseOrders == {calc'.orders[j] : j \in DOMAIN calc'.orders \ DOMAIN calc.orders}

\* a market SELL for the absolute value of the size the leg holds, which is not zero
SellsWhatIsHeld(o) ==
  /\ o.orderType = "MKT"
  /\ o.action = "SELL"
  /\ calc.position[o.leg] # 0
  /\ o.totalQuantity = Abs(calc.position[o.leg])

\* the exit of a position whose entry had filled before it returned True
\* and every closing order has filled
ExitFilled ==
  /\ calc.pc = "returned"
  /\ calc.success
  /\ calc.filled_at = "before"
  /\ \A j \in DOMAIN calc.orders : calc.orders[j].filled

\* C31 as stated: when the monitor closes a position, every closing order
\* is a market SELL for the absolute value of the leg's live size, submitted
\* only for legs whose size is not zero, and once those orders have filled
\* the size held in both legs is zero.
C31_ClosingOrdersFlatten ==
  /\ [][\A o \in NewCloseOrders : SellsWhatIsHeld(o)]_vars
  /\ [](ExitFilled => calc.position = <<0, 0>>)

\* both closing orders of a filled spread have filled: the bought leg is
\* flat, and the sold leg, closed with a SELL, is short two contracts
C31_Counterexample ==
  /\ ExitFilled
  /\ Len(calc.orders) = 2
  /\ calc.position = <<0, -2>>

\* C32 as stated: after the monitor has removed a position from the book, no
\* entry order submitted for it is still working at the brokerage; a
\* position whose entry order has not filled when an exit condition fires
\* is not dropped while that order can still fill.
C32_NoWorkingOrderAfterRemoval ==
  (calc.pc = "returned" /\ ~calc.inbook) => calc.entry # "working"

\* the exit of an unfilled position found nothing to close and returned
\* True, the position was dropped, and the entry order filled afterwards:
\* the spread is held and nothing monitors it
C32_Counterexample ==
  /\ calc.pc = "returned"
  /\ ~calc.inbook
  /\ calc.orders = << >>
  /\ calc.filled_at = "dropped"
  /\ calc.position = EntryFilled

(* ------------------------------------------------------------------ *)
(* Properties of the quote attempts and of the debit in select_and_place *)
(* ------------------------------------------------------------------ *)
\* every quote attempt for candidate i failed: reqMktData raised for a leg
\* in each of them, or the Greeks of a leg were missing
QuotesFailed(i) ==
  LET f == call.fetch[i]
  IN  ~f.r1 \/ ~f.r2 \/ ~f.q1.greeks \/ ~f.q2.greeks

\* the gates of a candidate read a ticker that no attempt for it assigned:
\* the one an earlier candidate left in t1 or t2
ReadEarlierQuote(s) ==
  \/ ~call.fetch[s.i].r1 /\ s.t1.bound
  \/ ~call.fetch[s.i].r2 /\ s.t2.bound

\* C33 as stated: a candidate for which all three quote attempts fail is
\* skipped: no order is submitted for it, quote data obtained for an
\* earlier candidate is never used to evaluate it, and the iteration goes
\* on with the next strike instead of ending the call.
C33_FailedQuotesAreSkipped ==
  call.done =>
    \A n \in 1..Len(call.seen) :
      LET s == call.seen[n]
      IN  QuotesFailed(s.i) =>
            /\ s.gate = "skip"
            /\ ~s.placed
            /\ ~ReadEarlierQuote(s)

\* an order went out for a candidate whose short-leg request raised in
\* every attempt: its debit was computed from the fresh long-leg quote and
\* the short-leg quote of the candidate before it
C33_Counterexample ==
  /\ call.done
  /\ call.result
  /\ \E n \in 2..Len(call.seen) :
       LET s == call.seen[n]
       IN  /\ s.placed
           /\ call.fetch[s.i].r1
           /\ ~call.fetch[s.i].r2
           /\ s.t2 = call.seen[n - 1].t2
           /\ call.seen[n - 1].gate = "skip"

\* the candidate got as far as the computation of the debit (line 148):
\* Greeks on both legs, positive bids and asks, both bid-ask tests passed
Priced(s) ==
  /\ s.t1.bound /\ s.t1.greeks /\ s.t2.bound /\ s.t2.greeks
  /\ s.t1.bid > 0 /\ s.t1.ask > 0 /\ ~SpreadTooWide(s.t1)
  /\ s.t2.bid > 0 /\ s.t2.ask > 0 /\ ~SpreadTooWide(s.t2)

\* the candidate is turned away by the delta test of lines 152-155, which
\* comes before the division of line 158
BelowMinDelta(s) ==
  call.direction \in {"bull", "high_base", "bear", "low_base"} /\ Abs(s.t1.delta) < MIN_DELTA

\* no order of the call has a debit of zero or less, and a candidate with a
\* negative debit is rejected, the loop going on
NoOrderAtNegativeDebit ==
  /\ \A k \in DOMAIN call.orders : call.orders[k].debit > 0
  /\ \A n \in DOMAIN call.seen :
       LET s == call.seen[n]
       IN  (Priced(s) /\ Debit(s.t1, s.t2) < 0) => (s.gate = "skip" /\ ~s.placed)

\* the call ended at candidate n with result False, no order, nothing recorded
EndsCallAt(n) ==
  /\ n = Len(call.seen)
  /\ call.seen[n].gate = "error"
  /\ ~call.result
  /\ call.orders = << >>
  /\ spread_book = << >>

\* C36 as stated: with MIN_REWARD_RISK_RATIO >= 0 no entry order is
\* submitted with a debit <= 0; a candidate with a negative debit is
\* rejected and the iteration goes on; a candidate whose debit is exactly 0
\* ends the call with result False, no order and the book unchanged.
C36_ZeroDebitEndsCall ==
  (call.done /\ cfg.MIN_REWARD_RISK_RATIO >= 0) =>
    /\ NoOrderAtNegativeDebit
    /\ \A n \in DOMAIN call.seen :
         LET s == call.seen[n]
         IN  (Priced(s) /\ Debit(s.t1, s.t2) = 0) => EndsCallAt(n)

\* C36, amended: the same, except that a candidate with debit 0 ends the
\* call only when it reaches the reward/risk division; one that the delta
\* test turns away first is skipped like any other and the loop goes on.
C36_NoOrderAtNonPositiveDebit ==
  (call.done /\ cfg.MIN_REWARD_RISK_RATIO >= 0) =>
    /\ NoOrderAtNegativeDebit
    /\ \A n \in DOMAIN call.seen :
         LET s == call.seen[n]
         IN  (Priced(s) /\ Debit(s.t1, s.t2) = 0) =>
               IF BelowMinDelta(s) THEN s.gate = "skip" /\ ~s.placed ELSE EndsCallAt(n)

\* a candidate with a negative debit was passed over, the next one has a
\* debit of 0 and ends the call: no order, nothing recorded
C36_Witness ==
  /\ call.done
  /\ Len(call.seen) = 2
  /\ Priced(call.seen[1])
  /\ Debit(call.seen[1].t1, call.seen[1].t2) < 0
  /\ call.seen[1].gate = "skip"
  /\ Priced(call.seen[2])
  /\ Debit(call.seen[2].t1, call.seen[2].t2) = 0
  /\ EndsCallAt(2)

(* ------------------------------------------------------------------ *)
(* Properties of the order of the exit conditions                       *)
(* ------------------------------------------------------------------ *)
\* the three tests on the record and price the call was given
StopTest ==
  LET i == calc.info
      stop == (i.ATR * cfg.STOP_LOSS_ATR_MULT) \div 10
  IN  \/ i.type \in {"bull", "high_base"} /\ calc.current_price <= i.entryPrice - stop
      \/ i.type \in {"bear", "low_base"} /\ calc.current_price >= i.entryPrice + stop

TargetTest ==
  LET i == calc.info
  IN  /\ i.has_target
      /\ \/ i.type \in {"bull", "high_base"} /\ calc.current_price >= i.price_target
         \/ i.type \in {"bear", "low_base"} /\ calc.current_price <= i.price_target

TrailingTest ==
  LET i == calc.info
  IN  /\ i.has_trailing
      /\ \/ i.type \in {"bull", "high_base"} /\ calc.current_price <= i.trailing_stop_price
         \/ i.type \in {"bear", "low_base"} /\ calc.current_price >= i.trailing_stop_price

\* C34: of the exit conditions that hold in one check the first in the
\* order stop_loss, profit_target, trailing_stop is the one acted on: a
\* price that meets the stop-loss test yields stop_loss and leaves the
\* record as it was, whatever the target and the trailing stop say; the
\* target comes before the trailing stop (it ends the check, as an exit or,
\* with trailing stops enabled, by arming the stop); trailing_stop is
\* returned only when neither of the other two tests is met.
C34_ExitPriority ==
  (calc.fn = "_check_exit_conditions" /\ calc.done) =>
    /\ StopTest => (calc.reason = "stop_loss" /\ calc.out = calc.info)
    /\ (~StopTest /\ TargetTest) =>
         IF cfg.TRAILING_STOP_ENABLED
         THEN calc.reason = "none" /\ calc.out.has_trailing
         ELSE calc.reason = "profit_target" /\ calc.out = calc.info
    /\ (~StopTest /\ ~TargetTest /\ TrailingTest) => calc.reason = "trailing_stop"
    /\ calc.reason = "stop_loss" => StopTest
    /\ calc.reason = "profit_target" => (~StopTest /\ TargetTest)
    /\ calc.reason = "trailing_stop" => (~StopTest /\ ~TargetTest /\ TrailingTest)

\* a price at the stop, at the target and at the armed trailing stop all at
\* once, trailing stops enabled: stop_loss, and the trailing stop untouched
C34_Witness ==
  /\ calc.fn = "_check_exit_conditions"
  /\ calc.done
  /\ cfg.TRAILING_STOP_ENABLED
  /\ StopTest
  /\ TargetTest
  /\ TrailingTest
  /\ calc.reason = "stop_loss"
  /\ calc.out.trailing_stop_price = calc.info.trailing_stop_price

(* ------------------------------------------------------------------ *)
(* Properties of the two scan functions                                 *)
(* ------------------------------------------------------------------ *)
\* the symbols of the list that match, in the order of the list
RECURSIVE MatchesFrom(_)
MatchesFrom(i) ==
  IF i > Len(calc.symbols) THEN << >>
  ELSE IF calc.data[calc.symbols[i]] = "match"
       THEN <<calc.symbols[i]>> \o MatchesFrom(i + 1)
       ELSE MatchesFrom(i + 1)

SymbolsOf(signals) == [k \in DOMAIN signals |-> signals[k].sym]

\* C38: for the same symbol list, per-symbol data and condition function,
\* scan_securities_parallel and scan_securities return the same list of
\* signals: the matching symbols in input order, a symbol whose processing
\* raises left out of both and the others unaffected.
C38_ParallelEqualsSequential ==
  /\ calc.seq_done => SymbolsOf(calc.seq_signals) = MatchesFrom(1)
  /\ calc.par_done => SymbolsOf(calc.par_signals) = MatchesFrom(1)
  /\ (calc.seq_done /\ calc.par_done) => calc.par_signals = calc.seq_signals

\* the workers finished the list back to front, the processing of one
\* symbol raised, and both functions returned the two matches in list order
C38_Witness ==
  /\ calc.seq_done
  /\ calc.par_done
  /\ Len(calc.symbols) = 3
  /\ calc.order = <<3, 2, 1>>
  /\ \E k \in 1..3 : calc.data[calc.symbols[k]] = "raise"
  /\ Len(calc.par_signals) = 2
  /\ calc.par_signals = calc.seq_signals

(* ------------------------------------------------------------------ *)
(* Properties of the technical-data cache                               *)
(* ------------------------------------------------------------------ *)
\* the step is a call of get_tech_df_cached for sym
CalledFor(sym) == got'.flip # got.flip /\ got'.sym = sym

\* C18: a call that finds the symbol's cache file existing, readable and
\* less than 86400 s old returns the table in the file and issues no
\* historical-data request; so when a fetched table was saved, a later call
\* for the symbol within 24 hours that can read the file returns that table
\* without a request.
C18_FreshCacheIsUsed ==
  /\ [][\A sym \in Symbols :
          (/\ CalledFor(sym)
           /\ cache_file[sym].exists
           /\ Unpickle(cache_file[sym].bytes).ok
           /\ clock - cache_file[sym].st_mtime < 86400)
            => /\ got'.df = Unpickle(cache_file[sym].bytes).df
               /\ got'.from_cache
               /\ requests' = requests
               /\ cache_file' = cache_file]_vars
  /\ [][\A sym \in Symbols :
          (/\ CalledFor(sym)
           /\ got.kept[sym].valid
           /\ clock - got.kept[sym].at < 86400)
            => /\ got'.df = got.kept[sym].df
               /\ requests' = requests]_vars
  /\ [](\A sym \in Symbols :
          got.kept[sym].valid
            => /\ cache_file[sym].exists
               /\ cache_file[sym].st_mtime = got.kept[sym].at
               /\ Unpickle(cache_file[sym].bytes) = [ok |-> TRUE, df |-> got.kept[sym].df])

\* the second call for a symbol, 12 hours after the fetch, got the first
\* call's table from the file; one request was issued in all
C18_Witness ==
  /\ got.from_cache
  /\ ~got.requested
  /\ got.kept[got.sym].valid
  /\ got.df = got.kept[got.sym].df
  /\ got.df \in Tables
  /\ clock = got.kept[got.sym].at + CacheTick
  /\ requests = 1

\* the symbol's cache file is absent, at least 24 hours old, or not loadable
NoUsableCache(sym) ==
  \/ ~cache_file[sym].exists
  \/ clock - cache_file[sym].st_mtime >= 86400
  \/ ~Unpickle(cache_file[sym].bytes).ok

\* C37: a call that finds the cache file absent, at least 24 hours old or
\* not deserializable makes a fresh fetch and returns its result; a
\* successful result that is saved overwrites the symbol's cache file with
\* that table; a 'no data' result is returned with every cache file as it
\* was; when the write fails the fetched table is returned all the same.
C37_StaleCacheIsRefetched ==
  [][\A sym \in Symbols :
       (CalledFor(sym) /\ NoUsableCache(sym))
         => /\ got'.requested
            /\ ~got'.from_cache
            /\ requests' = requests + 1
            /\ got'.df \in Tables \cup {<< >>}
            /\ got'.df = << >> => (~got'.saved /\ cache_file' = cache_file)
            /\ got'.saved
                 => /\ cache_file'[sym].exists
                    /\ cache_file'[sym].st_mtime = clock
                    /\ Unpickle(cache_file'[sym].bytes) = [ok |-> TRUE, df |-> got'.df]
            /\ (got'.df # << >> /\ ~got'.saved)
                 => (cache_file'[sym] = cache_file[sym]
                       \/ ~Unpickle(cache_file'[sym].bytes).ok)
            /\ \A other \in Symbols \ {sym} : cache_file'[other] = cache_file[other]]_vars

\* the second fetch, 24 hours after the start: the call had no usable
\* cache file, the save failed after the file was opened and left it
\* unreadable, and the fetched table was returned
C37_Witness ==
  /\ got.requested
  /\ ~got.from_cache
  /\ got.df \in Tables
  /\ ~got.saved
  /\ requests = 2
  /\ clock = 86400
  /\ cache_file[got.sym].st_mtime = clock
  /\ ~Unpickle(cache_file[got.sym].bytes).ok
  /\ \A other \in Symbols \ {got.sym} : ~cache_file[other].exists

\* C19: with caching disabled (use_cache False) a call for a table reads no
\* cache file and writes none: the table comes from a historical-data
\* request made in that call.
C19_NoCacheWhenDisabled ==
  [][(~use_cache /\ got'.flip # got.flip)
       => (got'.requested /\ ~got'.from_cache /\ cache_file' = cache_file)]_vars

\* with caching disabled a table was returned from the cache file the
\* process had written, without a request
C19_Counterexample ==
  /\ ~use_cache
  /\ got.from_cache
  /\ ~got.requested
  /\ cache_file[got.sym].exists
  /\ got.df = Unpickle(cache_file[got.sym].bytes).df

(* ------------------------------------------------------------------ *)
(* Properties of the exit target computation                            *)
(* ------------------------------------------------------------------ *)
\* the swing find_recent_swing returns for the table and type of the call
SwingOfCall == FindRecentSwing(calc.df, calc.type)

\* C23: add_fibonacci_target sets price_target to swing_end + |swing_end -
\* swing_start| * extension for bull and high_base and to swing_end -
\* |swing_end - swing_start| * extension for bear and low_base, (swing_start,
\* swing_end) being what find_recent_swing returns for the table; a bullish
\* swing from 90 to 110 at 1.618 gives 142.36, a bearish one from 110 to 90
\* gives 57.64.
C23_FibonacciTarget ==
  (calc.fn = "add_fibonacci_target" /\ calc.done) =>
    LET a == SwingOfCall.start
        b == SwingOfCall.end
        x == calc.extension_level
    IN  /\ calc.out.swing_start = a
        /\ calc.out.swing_end = b
        /\ calc.type \in {"bull", "high_base"} =>
             calc.out.price_target = 1000 * b + (IF b >= a THEN b - a ELSE a - b) * x
        /\ calc.type \in {"bear", "low_base"} =>
             calc.out.price_target = 1000 * b - (IF b >= a THEN b - a ELSE a - b) * x
        /\ (calc.type \in {"bull", "high_base"} /\ a = 90 /\ b = 110 /\ x = 1618) =>
             calc.out.price_target = 142360
        /\ (calc.type \in {"bear", "low_base"} /\ a = 110 /\ b = 90 /\ x = 1618) =>
             calc.out.price_target = 57640

\* a bearish swing found in the table, from the high of 110 to a later high of 90
C23_Witness ==
  /\ calc.fn = "add_fibonacci_target"
  /\ calc.done
  /\ calc.type = "low_base"
  /\ calc.extension_level = 1618
  /\ SwingOfCall.found
  /\ calc.out.swing_start = 110
  /\ calc.out.swing_end = 90
  /\ calc.out.price_target = 57640

\* the bars of the table counted from the end (1 = last), and the positions
\* within the last 20 bars that have a neighbour on both sides
Back(k) == calc.df[Len(calc.df) - k + 1]

WindowPositions == {k \in 2..20 : k <= Len(calc.df) - 2}

\* positions of the window whose low is below (whose high is above) the
\* lows (highs) of both neighbours
SwingLows ==
  {k \in WindowPositions : Back(k).low < Back(k + 1).low /\ Back(k).low < Back(k - 1).low}

SwingHighs ==
  {k \in WindowPositions : Back(k).high > Back(k + 1).high /\ Back(k).high > Back(k - 1).high}

\* the most recent position of a set
MostRecent(S) == CHOOSE k \in S : \A j \in S : k <= j

HighestHighFrom(k) == CHOOSE x \in {Back(j).high : j \in 1..k} : \A j \in 1..k : Back(j).high <= x

LowestLowFrom(k) == CHOOSE x \in {Back(j).low : j \in 1..k} : \A j \in 1..k : x <= Back(j).low

TableHigh == CHOOSE x \in {calc.df[j].high : j \in DOMAIN calc.df} : \A j \in DOMAIN calc.df : calc.df[j].high <= x

TableLow == CHOOSE x \in {calc.df[j].low : j \in DOMAIN calc.df} : \A j \in DOMAIN calc.df : x <= calc.df[j].low

\* C39 as stated: for bullish directions find_recent_swing returns as swing
\* start the low of the most recent bar within the last 20 whose low is
\* below the lows of both neighbours and as swing end the highest high from
\* that bar forward (bearish: most recent swing high, then lowest low);
\* with no such bar in the window it returns the minimum low and maximum
\* high of the whole table (bearish: maximum high and minimum low).
C39_MostRecentSwing ==
  (calc.fn = "find_recent_swing" /\ calc.done) =>
    /\ calc.direction \in {"bull", "high_base"} =>
         IF SwingLows # {}
         THEN /\ calc.out.start = Back(MostRecent(SwingLows)).low
              /\ calc.out.end = HighestHighFrom(MostRecent(SwingLows))
         ELSE calc.out.start = TableLow /\ calc.out.end = TableHigh
    /\ calc.direction \in {"bear", "low_base"} =>
         IF SwingHighs # {}
         THEN /\ calc.out.start = Back(MostRecent(SwingHighs)).high
              /\ calc.out.end = LowestLowFrom(MostRecent(SwingHighs))
         ELSE calc.out.start = TableHigh /\ calc.out.end = TableLow

\* a bullish call on a table with swing lows at the second and the fourth
\* bar from the end: the function returned the older one, and as swing end
\* a price under the highest high of the bars from there on
C39_Counterexample ==
  /\ calc.fn = "find_recent_swing"
  /\ calc.done
  /\ calc.direction = "bull"
  /\ SwingLows = {2, 4}
  /\ calc.out.found
  /\ calc.out.index = -4
  /\ calc.out.end < HighestHighFrom(4)

(* ------------------------------------------------------------------ *)
(* Properties of the high base and low base scans on short tables      *)
(* ------------------------------------------------------------------ *)
BaseScans == {"high_base", "low_base"}

ShortTables == calc.fn = "base_scans" /\ calc.bars < 252

\* C40: for every table get_tech_df produces with fewer than 252 bars
\* the 52-week high and low columns hold no value on the last bar and
\* high_base_condition and low_base_condition return false; the high base
\* and low base scans then emit no signal, and the daily entry run opens
\* no high_base or low_base position.
C40_NoBaseSignalOnShortTables ==
  /\ []((ShortTables /\ calc.done)
          => \A s \in Symbols :
               ~calc.out[s].none =>
                 /\ calc.out[s].w52_high = NaN
                 /\ calc.out[s].w52_low = NaN
                 /\ ~calc.out[s].high_base
                 /\ ~calc.out[s].low_base)
  /\ [][(ShortTables /\ mainpc = "scan")
          => \A k \in DOMAIN event'.flat : event'.flat[k].scan \notin BaseScans]_vars
  /\ [](ShortTables => \A s \in DOMAIN spread_book : spread_book[s].type \notin BaseScans)

\* a run on tables of 60 bars whose last bar passes every other test of
\* both conditions (close at the earlier closes, narrow range, low ATR,
\* enough volume), and in which a position of another scan was opened
C40_Witness ==
  /\ calc.fn = "base_scans"
  /\ calc.done
  /\ calc.bars = 60
  /\ \A s \in Symbols :
       /\ ~calc.out[s].none
       /\ calc.last[s].close = BaseBar.close
       /\ RatioBelow(ColATR14(TableOf(s)), 60, 8)
       /\ RatioBelow(ColRangePct(TableOf(s)), 60, 8)
  /\ spread_book # << >>

(* ------------------------------------------------------------------ *)
(* Properties of the scan conditions                                    *)
(* ------------------------------------------------------------------ *)
\* bar[-k] of the table of the call
BarFromEnd(k) == calc.df[Len(calc.df) - k + 1]

\* bar[-3] and bar[-2] each close above their open
TwoUpCandles ==
  /\ BarFromEnd(3).close > BarFromEnd(3).open
  /\ BarFromEnd(2).close > BarFromEnd(2).open

\* MA50 at bar[-1] is greater than MA50 at bar[-2]
RisingAverage ==
  /\ BarFromEnd(1).MA50 # NaN
  /\ BarFromEnd(2).MA50 # NaN
  /\ BarFromEnd(1).MA50 > BarFromEnd(2).MA50

\* the low of bar[-1] is at or below its MA50
LowAtAverage ==
  /\ BarFromEnd(1).MA50 # NaN
  /\ BarFromEnd(1).low <= BarFromEnd(1).MA50

\* C24: on a table of at least 3 bars bull_pullback_condition returns true
\* exactly when bar[-3] and bar[-2] each close above their open, MA50 at
\* bar[-1] is greater than MA50 at bar[-2] and the low of bar[-1] is at or
\* below its MA50; any one of the three sub-conditions false makes it false.
C24_BullPullback ==
  (calc.fn = "bull_pullback_condition" /\ calc.done /\ Len(calc.df) >= 3) =>
    /\ calc.out = (TwoUpCandles /\ RisingAverage /\ LowAtAverage)
    /\ ~TwoUpCandles => ~calc.out
    /\ ~RisingAverage => ~calc.out
    /\ ~LowAtAverage => ~calc.out

\* the pattern was found: two rising candles, then a bar touching the rising average
C24_Witness ==
  /\ calc.fn = "bull_pullback_condition"
  /\ calc.done
  /\ Len(calc.df) >= 3
  /\ calc.out
  /\ TwoUpCandles
  /\ RisingAverage
  /\ LowAtAverage

(* ------------------------------------------------------------------ *)
(* Properties of retry_api_call                                         *)
(* ------------------------------------------------------------------ *)
RetryDone == calc.fn = "retry_api_call" /\ calc.pc = "done"

\* the calls the operation would answer without raising, among the first max_retries
Returning == {k \in 1..calc.max_retries : calc.script[k] # "raise"}

FirstReturning == CHOOSE k \in Returning : \A j \in Returning : k <= j

\* every attempt was made and raised
EveryAttemptRaised == Returning = {} /\ calc.calls = calc.max_retries

\* the steps taken are calls with one pause between each two of them
CallsAndPauses ==
  /\ Len(calc.log) = IF calc.calls = 0 THEN 0 ELSE 2 * calc.calls - 1
  /\ \A n \in DOMAIN calc.log :
       calc.log[n] = IF n % 2 = 1 THEN "call"
                     ELSE IF calc.ib THEN "ib.sleep" ELSE "time.sleep"

\* at most max_retries calls; the result of the first call that does not
\* raise is returned, whatever it is, and no call follows it; pauses only
\* between attempts
RetryContract ==
  /\ calc.fn = "retry_api_call" => calc.calls <= calc.max_retries
  /\ RetryDone =>
       /\ CallsAndPauses
       /\ Returning # {} => (calc.calls = FirstReturning /\ calc.result = calc.script[FirstReturning])
       /\ Returning = {} => (calc.calls = calc.max_retries /\ calc.result = "None")

\* C25 as stated: at most max_retries calls, the result of the first call
\* that does not raise returned without a further call (also an empty or
\* zero one), pauses only between attempts and not after the last, and None
\* returned exactly when every attempt raises.
C25_RetryReturnsNoneOnlyOnFailure ==
  /\ RetryContract
  /\ RetryDone => (calc.result = "None" <=> EveryAttemptRaised)

\* C25, amended: the same, with None returned whenever every attempt raises;
\* None is also returned when the first call that does not raise returns None.
C25_RetryContract ==
  /\ RetryContract
  /\ (RetryDone /\ EveryAttemptRaised) => calc.result = "None"
  /\ (RetryDone /\ calc.result = "None") =>
       (EveryAttemptRaised \/ calc.script[FirstReturning] = "None")

\* two failed attempts with a pause after each, then a call that returned zero
C25_Witness ==
  /\ RetryDone
  /\ calc.max_retries = 3
  /\ calc.calls = 3
  /\ calc.result = "0"
  /\ calc.log = <<"call", "ib.sleep", "call", "ib.sleep", "call">>

(* ------------------------------------------------------------------ *)
(* Properties of the ticker file                                        *)
(* ------------------------------------------------------------------ *)
Loaded == calc.fn = "load_sp500_tickers" /\ calc.done

\* the file existed at the call and was modified less than 7 * 86400 seconds before it
RecentFile == calc.before.exists /\ calc.now - calc.before.st_mtime < 7 * 86400

\* every line of the file holds one symbol and nothing else
OneSymbolPerRow(lines) == \A k \in DOMAIN lines : Len(lines[k]) = 1

\* C26: with the ticker file present and modified less than 7 * 86400
\* seconds ago, load_sp500_tickers returns exactly the rows of the file (one
\* symbol per row; of other files, the first field of every line that is not
\* blank), makes no network access and does not rewrite the file; with the
\* file absent or older it takes the network fetch path.
C26_RecentFileIsRead ==
  Loaded =>
    /\ RecentFile =>
         /\ ~calc.network
         /\ calc.file = calc.before
         /\ OneSymbolPerRow(calc.before.lines) =>
              calc.before.lines = [k \in DOMAIN calc.result |-> <<calc.result[k]>>]
         /\ Len(calc.result) = Cardinality({k \in DOMAIN calc.before.lines :
                                              calc.before.lines[k] # << >>})
         /\ \A k \in DOMAIN calc.result :
              \E n \in DOMAIN calc.before.lines :
                calc.before.lines[n] # << >> /\ calc.result[k] = calc.before.lines[n][1]
    /\ ~RecentFile => calc.network

\* a file of two symbols, modified one second inside the seven days, was read
C26_Witness ==
  /\ Loaded
  /\ calc.before.exists
  /\ calc.now - calc.before.st_mtime = 7 * 86400 - 1
  /\ calc.before.lines = <<<<"MSFT">>, <<"AAPL">>>>
  /\ calc.result = <<"MSFT", "AAPL">>
  /\ ~calc.network
  /\ calc.file = calc.before

(* ------------------------------------------------------------------ *)
(* Properties of start-up, main loop and shutdown                       *)
(* ------------------------------------------------------------------ *)
\* C13: shutdown sets the shutdown signal, then asks the monitor to stop and
\* joins it with a timeout, then disconnects if connected, in that order; a
\* shutdown that was begun reaches the disconnect step and completes whether
\* or not the join found the thread exited, and no step of shutdown ends the
\* monitor thread.
C13_ShutdownOrder ==
  /\ [](procpc \in {"sd_stop", "sd_join", "sd_disconnect", "sd_done"}
          => (exit_event /\ life.log # <<>> /\ life.log[1] = "set"))
  /\ [](procpc = "sd_join" => life.log = <<"set", "stop">>)
  /\ []((procpc \in {"sd_disconnect", "sd_done"} /\ trader.monitor)
          => (Len(life.log) >= 2 /\ life.log[2] = "stop"))
  /\ [](procpc = "sd_done"
          => /\ ~connected
             /\ \A n \in 1..Len(life.log) : life.log[n] = "disconnect" => n = Len(life.log)
             /\ \A n \in 1..Len(life.log) : life.log[n] \in {"joined", "timeout"} => n = 3)
  /\ [][(procpc \in ShutdownPcs /\ procpc' # procpc) => monpc' = monpc]_vars
  /\ [][(procpc \in ShutdownPcs /\ connected' # connected) => procpc = "sd_disconnect"]_vars
  /\ (procpc = "sd_set") ~> (procpc = "sd_done")

\* the join timed out, the session was disconnected all the same and
\* shutdown completed with the monitor thread still in its loop
C13_Witness ==
  /\ procpc = "sd_done"
  /\ life.log = <<"set", "stop", "timeout", "disconnect">>
  /\ monpc \in {"test", "check", "sleep", "err_sleep"}

C15_MainLoopKeepsRunning ==
  /\ [][(InMainLoop /\ ~InMainLoop') => (exit_event \/ (life'.interrupted /\ procpc' = "sd_set"))]_vars
  /\ [](procpc = "loop_entries" => life.checked \in {"connected", "reconnected"})
  /\ [][(InMainLoop /\ life.result = "none" /\ life'.result = "false")
          => (procpc' = "loop_retry_wait" /\ life'.checked = "failed")]_vars
  /\ [][(procpc \in {"loop_retry_wait", "loop_error"} /\ procpc' # procpc)
          => procpc' \in {"loop_test", "sd_set"}]_vars

\* a reconnection failed and the loop waits for its next iteration
C15_Witness ==
  /\ procpc = "loop_retry_wait"
  /\ life.caller = "main_loop"
  /\ life.result = "false"
  /\ ~exit_event
  /\ ~life.interrupted

\* C16: connect makes at most 3 attempts; it returns True at the first
\* attempt that does not raise and attempts nothing further; it pauses after
\* a failed first or second attempt only; it returns False exactly when all
\* three attempts raised.
C16_ConnectAttempts ==
  /\ life.attempts <= 3
  /\ life.pauses <= 2
  /\ life.result = "true" => (life.attempts = life.raised + 1 /\ life.pauses = life.raised)
  /\ life.result = "false" => (life.attempts = 3 /\ life.raised = 3 /\ life.pauses = 2)
  /\ (life.raised = 3 /\ procpc \notin ConnectPcs) => life.result = "false"
  /\ procpc = "connect"
       => (life.result = "none" /\ life.attempts = attempt /\ life.raised = attempt
           /\ life.pauses = attempt)
  /\ procpc = "connect_pause"
       => (life.result = "none" /\ life.attempts = attempt + 1 /\ life.raised = attempt + 1
           /\ life.pauses = attempt)

\* a reconnection gave up after three failed attempts and two pauses
C16_Witness ==
  /\ life.caller = "main_loop"
  /\ life.result = "false"
  /\ life.attempts = 3
  /\ life.pauses = 2
  /\ procpc = "loop_retry_wait"

\* C17: when connect fails in initialize, initialize returns False with the
\* universe not loaded and the monitor neither created nor started, and the
\* process ends without entering the main loop, running a scan or touching
\* the book.
C17_NoStartWithoutConnection ==
  (life.caller = "initialize" /\ life.result = "false")
    => /\ procpc = "stopped"
       /\ life.init = "false"
       /\ ~trader.universe
       /\ ~trader.monitor
       /\ monpc = "unstarted"
       /\ ~life.entered_loop
       /\ ~life.scanned
       /\ spread_book = << >>
       /\ runs = 0
       /\ mainpc = "idle"

\* the three attempts of initialize's connect raised and the process ended
C17_Witness ==
  /\ life.caller = "initialize"
  /\ life.result = "false"
  /\ life.raised = 3
  /\ procpc = "stopped"

\* no order of either kind has gone out: run_entries_if_time has begun no
\* run, the book is empty and the monitor has closed nothing
NoOrderYet ==
  /\ runs = 0
  /\ mainpc = "idle"
  /\ event = NoEvent
  /\ spread_book = << >>
  /\ stats.trades_closed = 0

\* C22: in scan-only mode (--scan given) the process initializes, runs the
\* named scans once, shuts down and never enters the main loop; no entry
\* order and no closing order is submitted at any point in this mode.
C22_ScanOnlyMode ==
  args.scan =>
    /\ ~InMainLoop
    /\ ~life.entered_loop
    /\ NoOrderYet
    /\ procpc = "scan_mode" => (life.init = "true" /\ ~life.scanned)
    /\ life.scanned => procpc \in ShutdownPcs \cup {"stopped"}
    /\ (procpc \in ShutdownPcs \cup {"stopped"} /\ life.init = "true") => life.scanned
    /\ (procpc = "stopped" /\ life.init = "true") => (exit_event /\ ~connected)

\* a scan-only process has run its scan and stopped, the monitor thread gone
C22_Witness ==
  /\ args.scan
  /\ life.scanned
  /\ procpc = "stopped"
  /\ monpc = "exited"
  /\ ~life.entered_loop

(* ------------------------------------------------------------------ *)
(* Properties of the daily entry run                                    *)
(* ------------------------------------------------------------------ *)
InRun == mainpc \in {"place", "target_read", "target_write"}

\* C1: the runner never submits an entry order for a symbol that is in the
\* open-position book at that moment, be it from an earlier run or from an
\* earlier signal of the same run; a further order for the symbol needs the
\* monitor to have removed the entry first.
C1_NoOrderForOpenSymbol ==
  [][(mainpc = "place" /\ event'.kind = "attempt" /\ event'.reason = "placed")
       => event'.sym \notin DOMAIN spread_book]_vars

\* a signal for a symbol that is in the book was passed over
C1_Witness ==
  /\ event.kind = "attempt"
  /\ event.reason = "skip"
  /\ event.sym \in Open

\* C2: when an entry run finds at least MAX_POSITIONS entries in the book at
\* its position-limit check, the run is over with that check: no scan, no
\* order, nothing added to the book.
C2_NoScanAtLimit ==
  [][(runs' > runs /\ Cardinality(Open) >= MAX_POSITIONS)
       => (mainpc' = "idle" /\ spread_book' = spread_book /\ run' = NoRun)]_vars

\* a run began on a full book and ended at the check
C2_Witness ==
  /\ event.kind = "run_begin"
  /\ event.reason = "limit"
  /\ Cardinality(Open) >= MAX_POSITIONS
  /\ mainpc = "idle"

\* min(MAX_DAILY_TRADES, MAX_POSITIONS - open) for a count of open positions
CapacityFor(open) == Min(MAX_DAILY_TRADES, MAX_POSITIONS - open)

\* the first n entries of a list, all of it if it has fewer
Prefix(list, n) == SubSeq(list, 1, Min(n, Len(list)))

C4_OncePerDate ==
  /\ [](runs <= 1)
  /\ [][runs' > runs => hour >= SCAN_HOUR_ET]_vars

\* the date's run ended in an exception of the scans; later calls that day do nothing
C4_Witness ==
  /\ event.kind = "scan"
  /\ event.reason = "raise"
  /\ runs = 1
  /\ last_run_date = "today"
  /\ hour >= SCAN_HOUR_ET
  /\ mainpc = "idle"

\* select_and_place was called for the signal of the step's attempt
Called == mainpc = "place" /\ event'.kind = "attempt" /\ event'.reason # "skip"

\* the call ended with one order submitted and the symbol entered in the book
OneOrderAndEntry ==
  /\ event'.reason = "placed"
  /\ event'.orders = 1
  /\ event'.sym \notin DOMAIN spread_book
  /\ event'.sym \in DOMAIN spread_book'

\* a call of select_and_place that submitted an order returns after a
\* historical-data request
RequestByReturn ==
  (mainpc \in {"target_read", "target_write"} /\ mainpc' \notin {"target_read", "target_write"})
    => (event'.kind = "target" /\ event'.hist)

\* C21 as stated: in a daily entry run with free capacity, for an attempted
\* signal whose symbol is not in the book and for which at least one
\* candidate strike pair passes every gate, a historical-data request has
\* been made and exactly one entry order is submitted, after which the
\* symbol is in the book.
C21_OrderForPassingSignal ==
  /\ [][(Called /\ event'.passed) => OneOrderAndEntry]_vars
  /\ [][RequestByReturn]_vars

\* C21, amended: the same for a signal one of whose passing candidates has
\* its order accepted (ib.placeOrder returns); a candidate whose placeOrder
\* raises is passed over for the next strike, and when it raises for every
\* passing candidate no order is submitted and nothing is recorded.
C21_OrderWhenAccepted ==
  /\ [][(Called /\ event'.accepted) => (event'.passed /\ OneOrderAndEntry)]_vars
  /\ [][(Called /\ ~event'.accepted) => (event'.orders = 0 /\ UNCHANGED spread_book)]_vars
  /\ [][RequestByReturn]_vars

\* the order of a signal went out and its symbol is in the book; the
\* historical-data request of add_fibonacci_targets is still to come
C21_Witness ==
  /\ mainpc = "target_read"
  /\ event.kind = "attempt"
  /\ event.reason = "placed"
  /\ event.passed
  /\ event.orders = 1
  /\ event.sym \in Open

\* C35: select_and_place returns True exactly when it has submitted one
\* order and recorded the position under the symbol; when it returns False
\* no order is out and the book is unchanged; a submission that failed for
\* one candidate keeps neither a later candidate of the signal nor the
\* later signals of the run from being tried.
C35_ReturnAndBook ==
  /\ [][Called => ((event'.reason = "placed")
                     <=> (event'.orders = 1 /\ event'.ok
                            /\ event'.sym \in DOMAIN spread_book' \ DOMAIN spread_book))]_vars
  /\ [][(Called /\ event'.reason = "declined")
          => (~event'.ok /\ event'.orders = 0 /\ UNCHANGED spread_book)]_vars
  /\ [][(Called /\ event'.failed > 0 /\ event'.accepted) => event'.reason = "placed"]_vars
  /\ [][(Called /\ event'.failed > 0 /\ event'.reason = "declined"
           /\ run.idx < Len(run.all_signals))
          => (mainpc' = "place" /\ run'.idx = run.idx + 1
                /\ run'.all_signals = run.all_signals)]_vars

\* the second signal of a run was tried, the submission for its first
\* passing candidate raised, and the order for the next candidate went out
C35_Witness ==
  /\ event.kind = "attempt"
  /\ event.reason = "placed"
  /\ event.n = 2
  /\ event.failed = 1
  /\ event.orders = 1
  /\ event.sym \in Open

(* ------------------------------------------------------------------ *)
(* Properties of the shared open-position book                          *)
(* ------------------------------------------------------------------ *)
\* the keys a step adds to the book, and those it removes
Added == DOMAIN spread_book' \ DOMAIN spread_book

Removed == DOMAIN spread_book \ DOMAIN spread_book'

\* C27: with the main thread placing entries and the monitor thread
\* checking positions on the shared, unlocked book, under every
\* interleaving the monitor only removes keys taken from its own snapshot
\* and a key enters the book only with a newly submitted order for its
\* symbol: an entry the monitor has removed is never put back by the entry
\* path, its exit-target attachment step included.
C27_NoEntryPutBack ==
  /\ [][\A sym \in Removed : sym \in snapshot /\ sym \notin snapshot']_vars
  /\ [][\A sym \in Added : /\ event'.kind = "attempt"
                           /\ event'.reason = "placed"
                           /\ event'.sym = sym
                           /\ event'.orders = 1]_vars

\* the assignment that ends add_fibonacci_targets has stored the record of a
\* position under its symbol after the monitor closed the position and
\* popped the symbol; no order went out in that step
C27_Counterexample ==
  /\ event.kind = "target"
  /\ event.reason = "written"
  /\ event.ok
  /\ event.sym \in Open
  /\ spread_book[event.sym].has_target
  /\ stats.trades_closed >= 1

\* the stop-loss rules of _check_exit_conditions that apply to a type
RulesFor(type) ==
  (IF type \in {"bull", "high_base"} THEN {"bullish"} ELSE {}) \cup
  (IF type \in {"bear", "low_base"} THEN {"bearish"} ELSE {})

\* C30: every entry the daily entry run causes to be recorded in the book
\* has a strategy direction in {bull, bear, high_base, low_base}, so that
\* exactly one of the monitor's two stop-loss rules applies to every open
\* position.
C30_RecordedDirection ==
  \A sym \in Open :
    /\ spread_book[sym].type \in {"bull", "bear", "high_base", "low_base"}
    /\ Cardinality(RulesFor(spread_book[sym].type)) = 1

\* the run recorded a bear rally entry under its scan name: no stop-loss rule
\* applies to it, and the stop-loss test fails at every price, also far
\* beyond the stop distance on either side
C30_Counterexample ==
  /\ event.kind = "attempt"
  /\ event.reason = "placed"
  /\ event.scan = "bear_rallies"
  /\ event.sym \in Open
  /\ spread_book[event.sym].type = "bear_rallies"
  /\ RulesFor(spread_book[event.sym].type) = {}
  /\ \A cur \in PriceSet :
       ~StopLossHit(spread_book[event.sym].type, cur, spread_book[event.sym].entryPrice,
                    MulTenths(cfg.STOP_LOSS_ATR_MULT, spread_book[event.sym].ATR))

\* C28: in every reachable state, starting from an empty book and under
\* any interleaving of daily entry runs and monitor cycles, the number of
\* entries in the open-position book is at most MAX_POSITIONS.
C28_BookWithinLimit == Cardinality(Open) <= cfg.MAX_POSITIONS

\* the book is full and a signal for a symbol outside it was cut from the
\* run's list by the capacity
C28_Witness ==
  /\ Cardinality(Open) = cfg.MAX_POSITIONS
  /\ Cardinality(Open) < Cardinality(Symbols)
  /\ InRun
  /\ run.found > Len(run.all_signals)
  /\ run.added = 1

(* ------------------------------------------------------------------ *)
(* Properties of the monitor                                            *)
(* ------------------------------------------------------------------ *)
\* the position the observed check looked at, as it was before the check
Checked == event.info

PriceObtained == event.kind = "check" /\ event.cur # 0

\* the stop-loss rule for the observed check, in tenths of a dollar
StopRule ==
  \/ /\ Checked.type \in {"bull", "high_base"}
     /\ 10 * event.cur <= 10 * Checked.entryPrice - Checked.ATR * cfg.STOP_LOSS_ATR_MULT
  \/ /\ Checked.type \in {"bear", "low_base"}
     /\ 10 * event.cur >= 10 * Checked.entryPrice + Checked.ATR * cfg.STOP_LOSS_ATR_MULT

\* the observed check found the price at or beyond the position's target
TargetReached ==
  /\ Checked.has_target
  /\ \/ Checked.type \in {"bull", "high_base"} /\ event.cur >= Checked.price_target
     \/ Checked.type \in {"bear", "low_base"} /\ event.cur <= Checked.price_target

\* C5: in a check for which a price was obtained the exit reason is
\* stop_loss exactly when the position is bull or high_base and the price is
\* at or below entryPrice - ATR * STOP_LOSS_ATR_MULT, or it is bear or
\* low_base and the price is at or above entryPrice + ATR * STOP_LOSS_ATR_MULT.
C5_StopLossRule == PriceObtained => ((event.reason = "stop_loss") <=> StopRule)

\* entry 100, ATR 2, multiplier 1.5: the bullish position is stopped out at 96
C5_Witness ==
  /\ PriceObtained
  /\ Checked.type = "high_base"
  /\ Checked.entryPrice = 100
  /\ Checked.ATR = 2
  /\ cfg.STOP_LOSS_ATR_MULT = 15
  /\ event.cur = 96
  /\ event.reason = "stop_loss"

\* C7: a position leaves the book only in a check in which an exit condition
\* fired and no leg's close step raised, and that check counts one closed
\* trade; the statistics change in no other step; when a leg's close step
\* raises, book and statistics stay as they were, so that the next check
\* that finds the condition tries the exit again.
C7_RemovalOnlyOnCompletedExit ==
  [][/\ \A sym \in Open :
          sym \notin DOMAIN spread_book'
            => /\ event'.kind = "check"
               /\ event'.sym = sym
               /\ event'.reason \in {"stop_loss", "profit_target", "trailing_stop"}
               /\ event'.n = 0
               /\ stats'.trades_closed = stats.trades_closed + 1
     /\ stats' # stats => \E sym \in Open : sym \notin DOMAIN spread_book'
     /\ (event'.kind = "check" /\ event'.n > 0)
          => (spread_book' = spread_book /\ stats' = stats)]_vars

\* the stop-loss fired, a leg could not be closed, and the position is still in the book
C7_Witness ==
  /\ PriceObtained
  /\ event.reason = "stop_loss"
  /\ event.n > 0
  /\ event.sym \in Open
  /\ stats.trades_closed = 0

\* C8: when the stop-loss did not fire and the price is at or beyond the
\* position's target, the check exits with profit_target if trailing stops
\* are disabled; if they are enabled it does not exit, the position stays in
\* the book with a trailing stop at the price minus (bullish) or plus
\* (bearish) ATR * TRAILING_STOP_BUFFER and the price as its running extreme.
C8_TargetReached ==
  (PriceObtained /\ TargetReached /\ ~StopRule)
    => IF ~cfg.TRAILING_STOP_ENABLED
       THEN event.reason = "profit_target"
       ELSE /\ event.reason = "none"
            /\ event.sym \in Open
            /\ LET p == spread_book[event.sym]
               IN  /\ p.has_trailing
                   /\ IF p.type \in {"bull", "high_base"}
                      THEN /\ 10 * p.trailing_stop_price = 10 * event.cur - p.ATR * TRAILING_STOP_BUFFER
                           /\ p.trailing_high = event.cur
                      ELSE /\ 10 * p.trailing_stop_price = 10 * event.cur + p.ATR * TRAILING_STOP_BUFFER
                           /\ p.trailing_low = event.cur

\* a bullish position reached its target with trailing stops enabled and got its first trailing stop
C8_Witness ==
  /\ PriceObtained
  /\ TargetReached
  /\ ~StopRule
  /\ cfg.TRAILING_STOP_ENABLED
  /\ Checked.type = "high_base"
  /\ ~Checked.has_trailing
  /\ event.sym \in Open
  /\ spread_book[event.sym].has_trailing

\* the observed check found the price at or beyond an armed trailing stop
TrailingStopHit ==
  /\ Checked.has_trailing
  /\ \/ Checked.type \in {"bull", "high_base"} /\ event.cur <= Checked.trailing_stop_price
     \/ Checked.type \in {"bear", "low_base"} /\ event.cur >= Checked.trailing_stop_price

\* C9: once a trailing stop is armed, every check that finds the price at or
\* beyond the trailing stop exits with trailing_stop unless the stop-loss
\* fires in it, also when the price is still at or beyond the target.
C9_TrailingStopExits ==
  (PriceObtained /\ TrailingStopHit /\ ~StopRule) => event.reason = "trailing_stop"

\* a check at or below the armed trailing stop, the price still at or above
\* the target: no exit, and the trailing stop is set anew below the price
C9_Counterexample ==
  /\ PriceObtained
  /\ TrailingStopHit
  /\ ~StopRule
  /\ TargetReached
  /\ Checked.type = "high_base"
  /\ Checked.price_target > Checked.entryPrice
  /\ event.reason = "none"
  /\ event.sym \in Open
  /\ spread_book[event.sym].trailing_stop_price < Checked.trailing_stop_price

\* C29: once a trailing stop is armed, whatever prices later checks see, a
\* bullish position's trailing_stop_price and running high never decrease
\* from one check to the next, and a bearish position's trailing_stop_price
\* and running low never increase.
C29_TrailingStopOneWay ==
  [][\A sym \in DOMAIN spread_book \cap DOMAIN spread_book' :
       LET old == spread_book[sym]
           new == spread_book'[sym]
       IN  old.has_trailing =>
             /\ new.has_trailing
             /\ old.type \in {"bull", "high_base"} =>
                  /\ new.trailing_stop_price >= old.trailing_stop_price
                  /\ new.trailing_high >= old.trailing_high
             /\ old.type \in {"bear", "low_base"} =>
                  /\ new.trailing_stop_price <= old.trailing_stop_price
                  /\ new.trailing_low <= old.trailing_low]_vars

\* a bearish position with an armed trailing stop was checked at a price
\* above its running low but still at or below the target: the stop and the
\* running low were set anew, both higher than before
C29_Counterexample ==
  /\ PriceObtained
  /\ Checked.type = "low_base"
  /\ Checked.has_trailing
  /\ event.cur > Checked.trailing_low
  /\ event.cur <= Checked.price_target
  /\ event.reason = "none"
  /\ event.sym \in Open
  /\ spread_book[event.sym].trailing_stop_price > Checked.trailing_stop_price
  /\ spread_book[event.sym].trailing_low > Checked.trailing_low

(* ------------------------------------------------------------------ *)
(* Properties of select_and_place                                       *)
(* ------------------------------------------------------------------ *)
\* the order of an entry the daily run placed
Placed == event.kind = "attempt" /\ event.reason = "placed"

\* the strike next to k in the chain, above (+1) or below (-1)
Neighbour(k, step) ==
  LET i == CHOOSE j \in DOMAIN StrikeChain : StrikeChain[j] = k
  IN  IF i + step \in DOMAIN StrikeChain THEN StrikeChain[i + step] ELSE 0

\* C6: an entry order for a signal of the bull pullback or high base scan is
\* a call spread, long strike at or above the live price, short strike the
\* next higher one; for a signal of the bear rally or low base scan it is a
\* put spread, long strike at or below the price, short strike the next
\* lower one.
C6_SpreadShape ==
  Placed =>
    IF event.scan \in {"bull_pullbacks", "high_base"}
    THEN /\ event.order.optType = "C"
         /\ event.order.k1 >= event.S
         /\ event.order.k2 = Neighbour(event.order.k1, 1)
    ELSE /\ event.order.optType = "P"
         /\ event.order.k1 <= event.S
         /\ event.order.k2 = Neighbour(event.order.k1, -1)

\* a bull pullback signal entered as a put spread, short strike below the long strike
C6_Counterexample ==
  /\ Placed
  /\ event.scan = "bull_pullbacks"
  /\ event.order.optType = "P"
  /\ event.order.k2 < event.order.k1

\* C11: every entry order the daily run gets submitted, whatever the scan
\* type of its signal, has an absolute long-leg delta of at least MIN_DELTA, a
\* debit of at most MAX_COST and a reward (width * 100 - debit) of at least
\* MIN_REWARD_RISK_RATIO times the debit.
C11_GatesOnEveryOrder ==
  Placed =>
    /\ Abs(event.order.delta) >= MIN_DELTA
    /\ event.order.debit <= MAX_COST
    /\ event.order.debit > 0
    /\ 10 * (Abs(event.order.k2 - event.order.k1) * 10000 - event.order.debit)
         >= MIN_REWARD_RISK_RATIO * event.order.debit

\* the order of a bull pullback signal went out with a long-leg delta of
\* 0.20: the delta tests of lines 152-155 name bull, high_base, bear and
\* low_base, and the runner passes bull_pullbacks
C11_Counterexample ==
  /\ Placed
  /\ event.scan = "bull_pullbacks"
  /\ Abs(event.order.delta) < MIN_DELTA
  /\ event.order.debit <= MAX_COST

\* the quote lines 130-146 let through: bid and ask positive, bid-ask spread
\* within MAX_BID_ASK_PCT of the midpoint
LiquidQuote(t) ==
  /\ t.bid > 0
  /\ t.ask > 0
  /\ 200 * (t.ask - t.bid) <= MAX_BID_ASK_PCT * (t.ask + t.bid)

\* C12: no order is submitted, nor its submission tried, for a candidate one
\* of whose legs was quoted with a bid or ask of zero or less, or with a
\* bid-ask spread above MAX_BID_ASK_PCT of its midpoint, whatever its delta,
\* cost and width.
C12_NoOrderOnIlliquidLeg ==
  call.done =>
    \A n \in 1..Len(call.seen) :
      LET c == call.seen[n]
          f == call.fetch[c.i]
      IN  /\ (f.r1 /\ ~LiquidQuote(f.q1)) => (c.gate # "pass" /\ ~c.placed)
          /\ (f.r2 /\ ~LiquidQuote(f.q2)) => (c.gate # "pass" /\ ~c.placed)
          /\ c.gate = "pass" => (LiquidQuote(c.t1) /\ LiquidQuote(c.t2))

\* a candidate with a long-leg delta of 0.40 and no bid was passed over, and
\* so was one with a wide short leg; a later candidate's order went out
C12_Witness ==
  /\ call.done
  /\ call.result
  /\ \E n \in 1..Len(call.seen) :
       /\ call.fetch[call.seen[n].i].q1 = LongNoBid
       /\ call.seen[n].gate = "skip"
  /\ \E n \in 1..Len(call.seen) :
       /\ call.fetch[call.seen[n].i].q2 = ShortWide
       /\ call.seen[n].gate = "skip"

\* the position the call recorded
Recorded == spread_book[Universe[1]]

\* C20: with USE_R_MULTIPLE_TARGETS on and USE_FIBONACCI_TARGETS off, the
\* position a call records carries, when the call returns, the price target
\* entryPrice + ATR * STOP_LOSS_ATR_MULT * TARGET_R_MULTIPLE for bull and
\* high_base (minus for the others) and the label 2.0R.
C20_RMultipleTarget ==
  (call.done /\ call.result /\ cfg.USE_R_MULTIPLE_TARGETS /\ ~cfg.USE_FIBONACCI_TARGETS)
    => /\ Recorded.has_target
       /\ Recorded.target_type = "2.0R"
       /\ 100 * Recorded.price_target =
            IF Recorded.type \in {"bull", "high_base"}
            THEN 100 * Recorded.entryPrice + Recorded.ATR * cfg.STOP_LOSS_ATR_MULT * TARGET_R_MULTIPLE
            ELSE 100 * Recorded.entryPrice - Recorded.ATR * cfg.STOP_LOSS_ATR_MULT * TARGET_R_MULTIPLE

\* a high_base position recorded under the R-multiple setting, returned
\* without a target
C20_Counterexample ==
  /\ call.done
  /\ call.result
  /\ cfg.USE_R_MULTIPLE_TARGETS
  /\ ~cfg.USE_FIBONACCI_TARGETS
  /\ Recorded.type = "high_base"
  /\ ~Recorded.has_target
  /\ Recorded.target_type = ""

\* C10: a call submits at most one order; candidates are taken in ascending
\* strike order and the first one that passes the gates and whose submission
\* returns ends the iteration; a call that submits no order records nothing
\* and returns False.
C10_FirstQualifyingWins ==
  call.done =>
    /\ Len(call.orders) <= 1
    /\ \A n \in 1..(Len(call.seen) - 1) :
         StrikeChain[call.seen[n].i] < StrikeChain[call.seen[n + 1].i]
    /\ \A n \in 1..Len(call.seen) : call.seen[n].placed => n = Len(call.seen)
    /\ call.result <=> (Len(call.orders) = 1)
    /\ call.result
         => /\ call.seen # <<>>
            /\ call.seen[Len(call.seen)].placed
            /\ call.orders[1].k1 = StrikeChain[call.seen[Len(call.seen)].i]
            /\ Universe[1] \in Open
    /\ ~call.result => spread_book = << >>

\* the submission for the first candidate that passed the gates raised, the next candidate's went out
C10_Witness ==
  /\ call.done
  /\ call.result
  /\ Len(call.seen) >= 2
  /\ call.seen[1].gate = "pass"
  /\ ~call.seen[1].placed
  /\ Len(call.orders) = 1

====
